---- MODULE Spec2Model ----
(***************************************************************************)
(* Contradiction detection and resolution engine of the Program Execution  *)
(* Workbench (src/src/contradiction/detector.py) together with the part of *)
(* the orchestrator that drives it (src/src/workflows/orchestrator.py).    *)
(*                                                                         *)
(* Text is modelled by TLA+ strings; Python's substring test, lower(),     *)
(* split() and the two regular expressions are operators over the          *)
(* characters of those strings.  Python floats are modelled by exact       *)
(* rationals <<numerator, denominator>>; the texts of the model carry      *)
(* amounts and durations whose float arithmetic is exact.                  *)
(***************************************************************************)
EXTENDS Integers, Sequences, FiniteSets, TLC

(***************************************************************************)
(* Characters and strings                                                  *)
(***************************************************************************)

Char(s, i) == SubSeq(s, i, i)

Digits == {"0", "1", "2", "3", "4", "5", "6", "7", "8", "9"}

IsDigit(c) == c \in Digits

IsSpace(c) == c \in {" ", "\t", "\n"}

DigitVal(c) ==
    CASE c = "0" -> 0 [] c = "1" -> 1 [] c = "2" -> 2 [] c = "3" -> 3
      [] c = "4" -> 4 [] c = "5" -> 5 [] c = "6" -> 6 [] c = "7" -> 7
      [] c = "8" -> 8 [] c = "9" -> 9

\* str.lower() on one ASCII character
LowerChar(c) ==
    CASE c = "A" -> "a" [] c = "B" -> "b" [] c = "C" -> "c" [] c = "D" -> "d"
      [] c = "E" -> "e" [] c = "F" -> "f" [] c = "G" -> "g" [] c = "H" -> "h"
      [] c = "I" -> "i" [] c = "J" -> "j" [] c = "K" -> "k" [] c = "L" -> "l"
      [] c = "M" -> "m" [] c = "N" -> "n" [] c = "O" -> "o" [] c = "P" -> "p"
      [] c = "Q" -> "q" [] c = "R" -> "r" [] c = "S" -> "s" [] c = "T" -> "t"
      [] c = "U" -> "u" [] c = "V" -> "v" [] c = "W" -> "w" [] c = "X" -> "x"
      [] c = "Y" -> "y" [] c = "Z" -> "z" [] OTHER -> c

\* str.lower() on the characters i..j, by halves to keep the nesting shallow
RECURSIVE LowerRange(_, _, _)
LowerRange(s, i, j) ==
    IF i > j THEN ""
    ELSE IF i = j THEN LowerChar(Char(s, i))
    ELSE LET mid == (i + j) \div 2
         IN  LowerRange(s, i, mid) \o LowerRange(s, mid + 1, j)


(***************************************************************************)
(* Natural numbers of any size: little-endian limbs, no high zero limb     *)
(***************************************************************************)

LimbBits == 15

LimbBase == 32768

RECURSIVE BNorm(_)
BNorm(a) ==
    IF Len(a) = 0 THEN a
    ELSE IF a[Len(a)] = 0 THEN BNorm(SubSeq(a, 1, Len(a) - 1))
    ELSE a

RECURSIVE BInt(_)
BInt(n) == IF n = 0 THEN <<>> ELSE <<n % LimbBase>> \o BInt(n \div LimbBase)

Limb(a, i) == IF i <= Len(a) THEN a[i] ELSE 0

\* -1, 0, 1 as a < b, a = b, a > b; decided at the highest limb that differs
RECURSIVE BCmpAt(_, _, _)
BCmpAt(a, b, i) ==
    IF i = 0 THEN 0
    ELSE IF a[i] < b[i] THEN -1
    ELSE IF a[i] > b[i] THEN 1
    ELSE BCmpAt(a, b, i - 1)

BCmp(a, b) ==
    IF Len(a) < Len(b) THEN -1
    ELSE IF Len(a) > Len(b) THEN 1
    ELSE BCmpAt(a, b, Len(a))

RECURSIVE BAddAt(_, _, _, _)
BAddAt(a, b, i, carry) ==
    IF i > Len(a) /\ i > Len(b)
    THEN (IF carry = 0 THEN <<>> ELSE <<carry>>)
    ELSE LET t == Limb(a, i) + Limb(b, i) + carry
         IN  <<t % LimbBase>> \o BAddAt(a, b, i + 1, t \div LimbBase)

BAdd(a, b) == BAddAt(a, b, 1, 0)

\* a - b for a >= b
RECURSIVE BSubAt(_, _, _, _)
BSubAt(a, b, i, borrow) ==
    IF i > Len(a) THEN <<>>
    ELSE LET t == a[i] - Limb(b, i) - borrow
         IN  IF t < 0 THEN <<t + LimbBase>> \o BSubAt(a, b, i + 1, 1)
             ELSE <<t>> \o BSubAt(a, b, i + 1, 0)

BSub(a, b) == BNorm(BSubAt(a, b, 1, 0))

\* a * k for 0 <= k < LimbBase
RECURSIVE BMulSmallAt(_, _, _, _)
BMulSmallAt(a, k, i, carry) ==
    IF i > Len(a) THEN (IF carry = 0 THEN <<>> ELSE <<carry>>)
    ELSE LET t == a[i] * k + carry
         IN  <<t % LimbBase>> \o BMulSmallAt(a, k, i + 1, t \div LimbBase)

BMulSmall(a, k) == IF k = 0 THEN <<>> ELSE BMulSmallAt(a, k, 1, 0)

BShiftLimbs(a, n) == IF Len(a) = 0 THEN a ELSE [i \in 1..n |-> 0] \o a

RECURSIVE BMulAt(_, _, _)
BMulAt(a, b, i) ==
    IF i > Len(b) THEN <<>>
    ELSE BAdd(BShiftLimbs(BMulSmall(a, b[i]), i - 1), BMulAt(a, b, i + 1))

BMul(a, b) == BMulAt(a, b, 1)

\* a * 2^bits
BShl(a, bits) == BShiftLimbs(BMulSmall(a, 2 ^ (bits % LimbBits)), bits \div LimbBits)

\* number of binary digits
BBitLen(a) ==
    IF Len(a) = 0 THEN 0
    ELSE (Len(a) - 1) * LimbBits
         + (CHOOSE k \in 1..LimbBits : 2 ^ (k - 1) <= a[Len(a)] /\ a[Len(a)] < 2 ^ k)

\* the largest q < LimbBase with q * den <= rem, one binary digit at a time
RECURSIVE QuotientLimb(_, _, _, _)
QuotientLimb(rem, den, bit, acc) ==
    IF bit < 0 THEN acc
    ELSE IF BCmp(BMulSmall(den, acc + 2 ^ bit), rem) <= 0
    THEN QuotientLimb(rem, den, bit - 1, acc + 2 ^ bit)
    ELSE QuotientLimb(rem, den, bit - 1, acc)

\* one step of long division: the next quotient limb q of rem by den
BDivLimb(quo, rem, den, q) == << <<q>> \o quo, BSub(rem, BMulSmall(den, q)) >>

BDivStep(quo, rem, den) ==
    BDivLimb(quo, rem, den, QuotientLimb(rem, den, LimbBits - 1, 0))

BDivNext(high, limb, den) == BDivStep(high[1], BNorm(<<limb>> \o high[2]), den)

\* <<quotient, remainder>> of num by den > 0, from the highest limb down:
\* high is the result for the limbs above i, found before limb i is taken
RECURSIVE BDivAt(_, _, _, _)
BDivAt(num, den, i, high) ==
    IF i = 0 \/ Len(high) # 2 THEN high
    ELSE BDivAt(num, den, i - 1, BDivNext(high, num[i], den))

BDivNormal(r) == <<BNorm(r[1]), r[2]>>

BDivMod(num, den) == BDivNormal(BDivAt(num, den, Len(num), << <<>>, <<>> >>))

\* <<quotient, remainder>> of a by a small k > 0, from the highest limb down
BDivSmallNext(high, t, k) == << <<t \div k>> \o high[1], t % k >>

BDivSmallStep(high, limb, k) == BDivSmallNext(high, high[2] * LimbBase + limb, k)

RECURSIVE BDivSmallAt(_, _, _)
BDivSmallAt(a, k, i) ==
    IF i > Len(a) THEN << <<>>, 0 >>
    ELSE BDivSmallStep(BDivSmallAt(a, k, i + 1), a[i], k)

BPow10(k) == BMul(BInt(10 ^ (IF k > 9 THEN 9 ELSE k)), BInt(10 ^ (IF k > 9 THEN k - 9 ELSE 0)))

BDivSmall(a, k) == BDivNormal(BDivSmallAt(a, k, 1))

BIsOdd(a) == Len(a) > 0 /\ a[1] % 2 = 1

\* decimal digits of a, four at a time
RECURSIVE BDigits(_)
BDigitsNext(qr, t) ==
    IF Len(qr[1]) = 0 THEN t
    ELSE BDigits(qr[1]) \o SubSeq("000", 1, 4 - Len(t)) \o t

BDigitsOf(qr) == BDigitsNext(qr, ToString(qr[2]))

BDigits(a) == BDigitsOf(BDivSmall(a, 10000))

BToString(a) == BDigits(a)

(***************************************************************************)
(* Python float: IEEE 754 binary64, non-negative, as <<m, e>> for m * 2^e  *)
(* with m odd, or <<<<>>, 0>> for 0.0.  Every operation is the exact       *)
(* result rounded to 53 significant bits, ties to even.                    *)
(***************************************************************************)

MantissaBits == 53

FZero == << <<>>, 0 >>

\* m * 2^e with the factors of two moved from m into e
FCanonBy(m, e, k) == <<BDivSmall(m, 2 ^ k)[1], e + k>>

RECURSIVE FCanon(_, _)
FCanon(m, e) ==
    IF Len(m) = 0 THEN FZero
    ELSE IF m[1] = 0 THEN FCanon(SubSeq(m, 2, Len(m)), e + LimbBits)
    ELSE FCanonBy(m, e, CHOOSE k \in 0..(LimbBits - 1) :
                            m[1] % (2 ^ k) = 0 /\ (m[1] \div (2 ^ k)) % 2 = 1)

\* round-half-even of a quotient with remainder, twice = cmp(2 * remainder, den)
BRoundUp(quo, twice) ==
    IF twice < 0 THEN quo
    ELSE IF twice > 0 THEN BAdd(quo, <<1>>)
    ELSE IF BIsOdd(quo) THEN BAdd(quo, <<1>>) ELSE quo

BRoundQR(qr, den) == BRoundUp(qr[1], BCmp(BMulSmall(qr[2], 2), den))

\* round-half-even of num / den to a natural
BRoundDiv(num, den) == BRoundQR(BDivMod(num, den), den)

\* p * 2^shift / q as <<numerator, denominator>>
FScaled(p, q, shift) ==
    IF shift >= 0 THEN <<BShl(p, shift), q>> ELSE <<p, BShl(q, -shift)>>

FRoundAt(at, e) == FCanon(BRoundDiv(at[1], at[2]), e)

FRoundKeep(p, q, s, shift) == FRoundAt(FScaled(p, q, shift), s - shift)

\* the quotient at shift has 53 or 54 binary digits; 53 are kept
FRoundFrom(p, q, s, shift, hi) ==
    FRoundKeep(p, q, s, IF BBitLen(BDivMod(hi[1], hi[2])[1]) > MantissaBits
                        THEN shift - 1 ELSE shift)

FRoundShift(p, q, s, shift) == FRoundFrom(p, q, s, shift, FScaled(p, q, shift))

\* the float nearest to (p / q) * 2^s, for q > 0; p / q lies in
\* (2^(d-1), 2^(d+1)) where d is the difference of the bit lengths
FRound(p, q, s) ==
    IF Len(p) = 0 THEN FZero
    ELSE FRoundShift(p, q, s, MantissaBits - (BBitLen(p) - BBitLen(q)))

\* float("<digits>.<digits>") for p = the digits as one number, k = digits after the point
FDecimal(p, k) == FRound(p, BPow10(k), 0)

FInt(n) == FCanon(BInt(n), 0)

\* both mantissas over the exponent e
FAlignAt(x, y, e) == <<BShl(x[1], x[2] - e), BShl(y[1], y[2] - e), e>>

FAlign(x, y) == FAlignAt(x, y, IF x[2] < y[2] THEN x[2] ELSE y[2])

FCmpAligned(al) == BCmp(al[1], al[2])

FCmp(x, y) == IF x = y THEN 0 ELSE FCmpAligned(FAlign(x, y))

FLess(x, y) == FCmp(x, y) < 0

FMax(x, y) == IF FLess(x, y) THEN y ELSE x

FMin(x, y) == IF FLess(y, x) THEN y ELSE x

FAbsDiffAligned(al) ==
    IF BCmp(al[1], al[2]) >= 0 THEN FRound(BSub(al[1], al[2]), <<1>>, al[3])
    ELSE FRound(BSub(al[2], al[1]), <<1>>, al[3])

\* abs(x - y)
FAbsDiff(x, y) == IF x = y THEN FZero ELSE FAbsDiffAligned(FAlign(x, y))

FMul(x, y) ==
    IF x = FZero \/ y = FZero THEN FZero
    ELSE FRound(BMul(x[1], y[1]), <<1>>, x[2] + y[2])

\* x / y for y > 0
FDiv(x, y) == IF x = FZero \/ y = FZero THEN FZero ELSE FRound(x[1], y[1], x[2] - y[2])

FScaledRoundOf(num, e) ==
    IF e >= 0 THEN BShl(num, e) ELSE BRoundDiv(num, BShl(<<1>>, -e))

\* round-half-even of x * 10^k to a natural (the digits format(x, ".kf") shows)
FScaledRound(x, k) ==
    IF x = FZero THEN <<>> ELSE FScaledRoundOf(BMul(x[1], BPow10(k)), x[2])


(***************************************************************************)
(* The texts of the model.  Each case pairs a finding text with what a     *)
(* reader takes it to say; the engine only ever sees the text.             *)
(***************************************************************************)

\* [content, evm: names a performance index, improving, worsening]
DirectionCases ==
    { [content |-> "CPI is improving, trending up",
       evm |-> TRUE, improving |-> TRUE, worsening |-> FALSE],
      [content |-> "CPI is declining and worsening",
       evm |-> TRUE, improving |-> FALSE, worsening |-> TRUE],
      [content |-> "SPI is stable at 0.98",
       evm |-> TRUE, improving |-> FALSE, worsening |-> FALSE],
      [content |-> "Cost performance is better but schedule performance is worse",
       evm |-> TRUE, improving |-> TRUE, worsening |-> TRUE],
      [content |-> "Margins are improving",
       evm |-> FALSE, improving |-> TRUE, worsening |-> FALSE],
      [content |-> "The SPI fell behind plan",
       evm |-> TRUE, improving |-> FALSE, worsening |-> TRUE],
      [content |-> "Morale is up despite the slipping dates",
       evm |-> TRUE, improving |-> FALSE, worsening |-> TRUE] }

\* [content, schedule: holds a schedule term, tenths: the largest duration
\*  in tenths of a day, -1 when the text holds no duration]
ScheduleCases ==
    { [content |-> "slip of 10 days", schedule |-> TRUE, tenths |-> 100],
      [content |-> "delay of 25 days", schedule |-> TRUE, tenths |-> 250],
      [content |-> "delay of 13 days", schedule |-> TRUE, tenths |-> 130],
      [content |-> "delay of 15 days", schedule |-> TRUE, tenths |-> 150],
      [content |-> "delay of 20 days", schedule |-> TRUE, tenths |-> 200],
      [content |-> "slip of 2 weeks", schedule |-> TRUE, tenths |-> 140],
      [content |-> "delay of 14 days", schedule |-> TRUE, tenths |-> 140],
      [content |-> "Slip of 1 month after 5 days late", schedule |-> TRUE, tenths |-> 300],
      [content |-> "slip of 2.1 days", schedule |-> TRUE, tenths |-> 21],
      [content |-> "delay of 1.4 days", schedule |-> TRUE, tenths |-> 14],
      [content |-> "slip of 0.2 weeks", schedule |-> TRUE, tenths |-> 14],
      [content |-> "delay of 0.7 days", schedule |-> TRUE, tenths |-> 7],
      [content |-> "late by 0 days", schedule |-> TRUE, tenths |-> 0],
      [content |-> "slip expected", schedule |-> TRUE, tenths |-> -1],
      [content |-> "float of 25 days", schedule |-> FALSE, tenths |-> 250] }

\* [content, cost: holds a cost term, cents: the largest amount in cents of
\*  a dollar, -1 when the text holds no amount]
CostCases ==
    { [content |-> "EAC projected at $500,000", cost |-> TRUE, cents |-> 50000000],
      [content |-> "estimate at completion now $650,000", cost |-> TRUE,
       cents |-> 65000000],
      [content |-> "EAC now $540,000", cost |-> TRUE, cents |-> 54000000],
      [content |-> "EAC now $550,000", cost |-> TRUE, cents |-> 55000000],
      [content |-> "Total cost $625K", cost |-> TRUE, cents |-> 62500000],
      [content |-> "Projected cost between $100 and $0.5 million",
       cost |-> TRUE, cents |-> 50000000],
      [content |-> "EAC could reach $1M", cost |-> TRUE, cents |-> 100000000],
      [content |-> "EAC is $1.10", cost |-> TRUE, cents |-> 110],
      [content |-> "EAC is $1.00", cost |-> TRUE, cents |-> 100],
      [content |-> "EAC is $0", cost |-> TRUE, cents |-> 0],
      [content |-> "EAC not yet known", cost |-> TRUE, cents |-> -1],
      [content |-> "Budget request is $650,000", cost |-> FALSE, cents |-> 65000000] }

\* [content, risk: holds a risk or issue term, label: the highest severity
\*  tier one of whose keywords appears in the text, "" when none does,
\*  words: the whitespace-delimited lower-cased words that are not stop words]
RiskCases ==
    { [content |-> "critical risk to engine delivery date slip", risk |-> TRUE,
       label |-> "critical",
       words |-> {"critical", "risk", "engine", "delivery", "date", "slip"}],
      [content |-> "medium risk to engine delivery date slip", risk |-> TRUE,
       label |-> "medium",
       words |-> {"medium", "risk", "engine", "delivery", "date", "slip"}],
      [content |-> "high risk to engine delivery date slip", risk |-> TRUE,
       label |-> "high",
       words |-> {"high", "risk", "engine", "delivery", "date", "slip"}],
      [content |-> "low risk to engine delivery date slip", risk |-> TRUE,
       label |-> "low",
       words |-> {"low", "risk", "engine", "delivery", "date", "slip"}],
      [content |-> "risk to engine delivery date slip", risk |-> TRUE,
       label |-> "",
       words |-> {"risk", "engine", "delivery", "date", "slip"}],
      [content |-> "Minor issue: engine delivery date", risk |-> TRUE,
       label |-> "low",
       words |-> {"minor", "issue:", "engine", "delivery", "date"}],
      [content |-> "Severe but LOW risk to engine delivery date", risk |-> TRUE,
       label |-> "critical",
       words |-> {"severe", "but", "low", "risk", "engine", "delivery", "date"}],
      [content |-> "the risk is high in the engine and date", risk |-> TRUE,
       label |-> "high",
       words |-> {"risk", "high", "engine", "date"}],
      [content |-> "the risk is low in the engine and date", risk |-> TRUE,
       label |-> "low",
       words |-> {"risk", "low", "engine", "date"}],
      [content |-> "critical engine delivery date slip to port", risk |-> FALSE,
       label |-> "critical",
       words |-> {"critical", "engine", "delivery", "date", "slip", "port"}],
      [content |-> "medium threat engine delivery date slip to port", risk |-> TRUE,
       label |-> "medium",
       words |-> {"medium", "threat", "engine", "delivery", "date", "slip", "port"}] }

\* [content, cause: holds a causal phrase, topics: the whitespace-delimited
\*  lower-cased words that belong to the domain vocabulary, follows: each
\*  causal phrase of the text with the 80 characters that follow its first
\*  occurrence, trimmed]
CauseCases ==
    { [content |-> "cost and schedule slip caused by supplier rework",
       cause |-> TRUE, topics |-> {"cost", "rework", "schedule", "supplier"},
       follows |-> {<<"caused by", "supplier rework">>}],
      [content |-> "cost and schedule slip caused by labor shortage",
       cause |-> TRUE, topics |-> {"cost", "labor", "schedule"},
       follows |-> {<<"caused by", "labor shortage">>}],
      [content |-> "Schedule and cost growth CAUSED BY supplier rework",
       cause |-> TRUE, topics |-> {"cost", "rework", "schedule", "supplier"},
       follows |-> {<<"caused by", "supplier rework">>}],
      [content |-> "tooling cost overrun caused by design change",
       cause |-> TRUE, topics |-> {"cost", "design", "tooling"},
       follows |-> {<<"caused by", "design change">>}],
      [content |-> "cost and schedule slip due to weather, root cause supplier rework",
       cause |-> TRUE, topics |-> {"cost", "rework", "schedule", "supplier"},
       follows |-> {<<"due to", "weather, root cause supplier rework">>, <<"root cause", "supplier rework">>}],
      [content |-> "cost and schedule slip due to strikes, root cause supplier rework",
       cause |-> TRUE, topics |-> {"cost", "rework", "schedule", "supplier"},
       follows |-> {<<"due to", "strikes, root cause supplier rework">>, <<"root cause", "supplier rework">>}],
      [content |-> "cost and schedule hit due to rain, root cause labor gaps",
       cause |-> TRUE, topics |-> {"cost", "labor", "schedule"},
       follows |-> {<<"due to", "rain, root cause labor gaps">>, <<"root cause", "labor gaps">>}],
      [content |-> "cost and schedule slip driven by supplier rework",
       cause |-> TRUE, topics |-> {"cost", "rework", "schedule", "supplier"},
       follows |-> {<<"driven by", "supplier rework">>}],
      [content |-> "cost and schedule slip from supplier rework",
       cause |-> FALSE, topics |-> {"cost", "rework", "schedule", "supplier"},
       follows |-> {}],
      [content |-> "Cost, schedule: caused by supplier rework",
       cause |-> TRUE, topics |-> {"rework", "supplier"},
       follows |-> {<<"caused by", "supplier rework">>}],
      [content |-> "supplier rework on wing caused by  tooling wear ",
       cause |-> TRUE, topics |-> {"rework", "supplier", "tooling", "wing"},
       follows |-> {<<"caused by", "tooling wear">>}],
      [content |-> "cost and schedule slip caused by late delivery of the forward fuselage frames from the second tier casting vendor in q3",
       cause |-> TRUE, topics |-> {"cost", "delivery", "schedule"},
       follows |-> {<<"caused by", "late delivery of the forward fuselage frames from the second tier casting vendo">>}],
      [content |-> "cost and schedule slip caused by late delivery of the forward fuselage frames from the second tier casting vendos in q3",
       cause |-> TRUE, topics |-> {"cost", "delivery", "schedule"},
       follows |-> {<<"caused by", "late delivery of the forward fuselage frames from the second tier casting vendo">>}],
      [content |-> "cost and schedule slip caused by late delivery of the forward fuselage frames from the second tier casting vender in q3",
       cause |-> TRUE, topics |-> {"cost", "delivery", "schedule"},
       follows |-> {<<"caused by", "late delivery of the forward fuselage frames from the second tier casting vende">>}] }

\* [content, x and y: the opposite-keyword-set pairs, numbered as the rule
\*  lists them, of which the text holds a keyword of the first set (x) and
\*  of the second set (y); "stop overtime" holds "overtime" and
\*  "no rebaseline" holds "rebaseline"]
MitigationCases ==
    { [content |-> "accelerate delivery and add overtime", x |-> {1, 3}, y |-> {}],
      [content |-> "defer delivery and stop overtime", x |-> {3}, y |-> {1, 3}],
      [content |-> "Postpone the review", x |-> {}, y |-> {1}],
      [content |-> "keep sole source incumbent and accept the risk",
       x |-> {5}, y |-> {2}],
      [content |-> "use a second source and mitigate risk, rebaseline now",
       x |-> {2, 4}, y |-> {5}],
      [content |-> "hold baseline", x |-> {}, y |-> {4}],
      [content |-> "no rebaseline", x |-> {4}, y |-> {4}],
      [content |-> "monitor progress", x |-> {}, y |-> {}],
      [content |-> "expedite, dual-source, hire, rebaseline, accept risk",
       x |-> {1, 2, 3, 4, 5}, y |-> {}],
      [content |-> "delay, sole-source, cut spending, keep baseline, reduce risk",
       x |-> {}, y |-> {1, 2, 3, 4, 5}] }

\* what an agent may state: [finding_type, content, confidence]
Statement(finding_type, content, confidence) ==
    [finding_type |-> finding_type, content |-> content, confidence |-> confidence]

\* the texts of the statements below
StatementTexts ==
    << "CPI is improving; EAC projected at $500,000; schedule slip of 10 days",
       "CPI is declining; estimate at completion now $650,000; schedule delay of 25 days",
       "Supplier quality risk on wing assembly line rated critical",
       "Supplier quality risk on wing assembly line rated moderate",
       "Cost growth caused by supplier rework on wing assembly so accelerate delivery and add overtime",
       "Cost growth caused by labor shortage on wing assembly so defer delivery and stop overtime" >>

Statements ==
    { Statement("analysis", StatementTexts[1], FDecimal(BInt(9), 1)),
      Statement("analysis", StatementTexts[2], FDecimal(BInt(5), 1)),
      Statement("observation", StatementTexts[3], FDecimal(BInt(9), 1)),
      Statement("observation", StatementTexts[4], FDecimal(BInt(4), 1)),
      Statement("recommendation", StatementTexts[5], FDecimal(BInt(6), 1)),
      Statement("action", StatementTexts[6], FDecimal(BInt(6), 1)) }

\* the texts of the confidence statements below
ConfidenceTexts ==
    << "wing assembly rework will finish on time",
       "wing assembly rework will finish late",
       "the wing assembly rework is for this",
       "Wing Assembly Rework Will slip" >>

\* [finding_type, content, confidence, hundredths: the confidence in
\*  hundredths, words: the whitespace-delimited lower-cased words of the
\*  text that are not trivial words]; tenth[n] is the float n / 10
ConfidenceCasesOf(tenth) ==
    { [finding_type |-> "analysis", content |-> ConfidenceTexts[1],
       confidence |-> tenth[9], hundredths |-> 90,
       words |-> {"wing", "assembly", "rework", "will", "finish", "on", "time"}],
      [finding_type |-> "analysis", content |-> ConfidenceTexts[2],
       confidence |-> tenth[5], hundredths |-> 50,
       words |-> {"wing", "assembly", "rework", "will", "finish", "late"}],
      [finding_type |-> "analysis", content |-> ConfidenceTexts[2],
       confidence |-> tenth[4], hundredths |-> 40,
       words |-> {"wing", "assembly", "rework", "will", "finish", "late"}],
      [finding_type |-> "analysis", content |-> ConfidenceTexts[2],
       confidence |-> tenth[3], hundredths |-> 30,
       words |-> {"wing", "assembly", "rework", "will", "finish", "late"}],
      [finding_type |-> "analysis", content |-> ConfidenceTexts[2],
       confidence |-> tenth[8], hundredths |-> 80,
       words |-> {"wing", "assembly", "rework", "will", "finish", "late"}],
      [finding_type |-> "analysis", content |-> ConfidenceTexts[1],
       confidence |-> tenth[6], hundredths |-> 60,
       words |-> {"wing", "assembly", "rework", "will", "finish", "on", "time"}],
      [finding_type |-> "observation", content |-> ConfidenceTexts[2],
       confidence |-> tenth[4], hundredths |-> 40,
       words |-> {"wing", "assembly", "rework", "will", "finish", "late"}],
      [finding_type |-> "observation", content |-> ConfidenceTexts[1],
       confidence |-> tenth[9], hundredths |-> 90,
       words |-> {"wing", "assembly", "rework", "will", "finish", "on", "time"}],
      [finding_type |-> "analysis", content |-> ConfidenceTexts[3],
       confidence |-> tenth[3], hundredths |-> 30,
       words |-> {"wing", "assembly", "rework"}],
      [finding_type |-> "analysis", content |-> ConfidenceTexts[4],
       confidence |-> tenth[2], hundredths |-> 20,
       words |-> {"wing", "assembly", "rework", "will", "slip"}] }

ConfidenceCases == ConfidenceCasesOf([n \in 0..10 |-> FDecimal(BInt(n), 1)])

\* every finding text the model starts from
Contents ==
    {c.content : c \in DirectionCases} \cup {c.content : c \in ScheduleCases}
    \cup {c.content : c \in CostCases} \cup {c.content : c \in RiskCases}
    \cup {c.content : c \in CauseCases}
    \cup {c.content : c \in MitigationCases}
    \cup {ConfidenceTexts[k] : k \in 1..Len(ConfidenceTexts)}
    \cup {StatementTexts[k] : k \in 1..Len(StatementTexts)}

\* a value found once and kept in a table, or found now when the table does
\* not hold the key
Memo(tab, key, value) == IF key \in DOMAIN tab THEN tab[key] ELSE value

\* the table f with every entry computed: TLC enumerates a function when it
\* compares it, and keeps the entries
Tabled(f) == IF f = f THEN f ELSE f

\* str.lower(); the texts of the model are lower-cased once
LowerTab ==
    Tabled([c \in Contents |-> LowerRange(c, 1, Len(c))])

Lower(s) == Memo(LowerTab, s, LowerRange(s, 1, Len(s)))

LowerContents == {LowerTab[c] : c \in Contents}

(***************************************************************************)
(* Keyword tables and term sets of detector.py                             *)
(***************************************************************************)

_IMPROVING_KEYWORDS ==
    {"improving", "recovery", "recovering", "positive", "upward",
     "increasing", "better", "gained", "favorable", "trending up",
     "on track", "ahead"}

_WORSENING_KEYWORDS ==
    {"declining", "worsening", "negative", "downward", "decreasing",
     "worse", "degrading", "unfavorable", "trending down", "behind",
     "slipping", "eroding", "deteriorating"}

_SEVERITY_KEYWORDS ==
    [level \in {"critical", "high", "medium", "low"} |->
        CASE level = "critical" ->
                {"critical", "catastrophic", "showstopper", "unacceptable", "severe"}
          [] level = "high" ->
                {"high", "significant", "major", "serious", "substantial"}
          [] level = "medium" -> {"medium", "moderate", "manageable", "notable"}
          [] level = "low" -> {"low", "minor", "minimal", "negligible", "marginal"}]

evm_terms == {"cpi", "spi", "cost performance", "schedule performance"}


risk_terms == {"risk", "threat", "issue", "concern", "hazard"}


schedule_terms == {"slip", "delay", "behind schedule", "late", "schedule impact"}


cost_terms ==
    {"eac", "estimate at completion", "cost estimate", "projected cost", "total cost"}


cause_terms ==
    {"root cause", "caused by", "attributed to", "driven by", "due to", "because of"}

meaningful_words ==
    {"cost", "schedule", "quality", "supplier", "rework",
     "assembly", "wing", "fastener", "composite", "labor",
     "material", "delivery", "manufacturing", "tooling",
     "design", "engineering", "testing", "production",
     "avionics", "structures", "integration", "software"}


conflict_pairs ==
    << [set_x |-> {"accelerate", "expedite", "fast-track", "compress"},
        set_y |-> {"defer", "delay", "postpone", "descope"},
        conflict_desc |-> "schedule approach: acceleration vs. deferral"],
       [set_x |-> {"dual-source", "dual source", "alternate source", "second source"},
        set_y |-> {"sole-source", "sole source", "single source", "incumbent"},
        conflict_desc |-> "sourcing strategy: dual-source vs. sole-source"],
       [set_x |-> {"increase staffing", "add resources", "augment workforce",
                   "hire", "overtime"},
        set_y |-> {"reduce cost", "cut spending", "reduce headcount", "stop overtime"},
        conflict_desc |-> "resource strategy: increase vs. reduce"],
       [set_x |-> {"rebaseline", "reset baseline", "over-target baseline"},
        set_y |-> {"maintain baseline", "hold baseline", "keep baseline",
                   "no rebaseline"},
        conflict_desc |-> "baseline strategy: rebaseline vs. maintain"],
       [set_x |-> {"accept risk", "risk acceptance", "accept the risk"},
        set_y |-> {"mitigate risk", "risk mitigation", "reduce risk",
                   "eliminate risk"},
        conflict_desc |-> "risk response: acceptance vs. mitigation"] >>


\* every keyword the rules look for in a finding text
Keywords ==
    _IMPROVING_KEYWORDS \cup _WORSENING_KEYWORDS
    \cup UNION {_SEVERITY_KEYWORDS[level] : level \in DOMAIN _SEVERITY_KEYWORDS}
    \cup evm_terms \cup risk_terms \cup schedule_terms \cup cost_terms \cup cause_terms
    \cup UNION {conflict_pairs[k].set_x \cup conflict_pairs[k].set_y :
                  k \in 1..Len(conflict_pairs)}

\* kw occurs in text as a substring
Occurs(kw, text) ==
    \E i \in 1..(Len(text) - Len(kw) + 1) : SubSeq(text, i, i + Len(kw) - 1) = kw

\* the keywords that occur in each lower-cased text of the model, found once
KeywordsIn == Tabled([t \in LowerContents |-> {kw \in Keywords : Occurs(kw, t)}])

\* Python's  kw in text  on strings
In(kw, text) ==
    IF kw \in Keywords
    THEN kw \in Memo(KeywordsIn, text, IF Occurs(kw, text) THEN {kw} ELSE {})
    ELSE Occurs(kw, text)

\* the maximal runs of non-whitespace characters of a text
Words(text) ==
    { SubSeq(text, p[1], p[2]) : p \in
        { p \in (1..Len(text)) \X (1..Len(text)) :
            /\ p[1] <= p[2]
            /\ \A k \in p[1]..p[2] : ~IsSpace(Char(text, k))
            /\ (p[1] = 1 \/ IsSpace(Char(text, p[1] - 1)))
            /\ (p[2] = Len(text) \/ IsSpace(Char(text, p[2] + 1))) } }

WordsTab == Tabled([t \in LowerContents |-> Words(t)])

\* set(text.split())
SplitSet(text) == Memo(WordsTab, text, Words(text))

\* text starts with  kw  at position  i
At(kw, text, i) ==
    /\ i + Len(kw) - 1 <= Len(text)
    /\ SubSeq(text, i, i + Len(kw) - 1) = kw

\* str.strip()
RECURSIVE LStrip(_)
LStrip(s) ==
    IF Len(s) > 0 /\ IsSpace(Char(s, 1)) THEN LStrip(SubSeq(s, 2, Len(s))) ELSE s

RECURSIVE RStrip(_)
RStrip(s) ==
    IF Len(s) > 0 /\ IsSpace(Char(s, Len(s)))
    THEN RStrip(SubSeq(s, 1, Len(s) - 1)) ELSE s

Strip(s) == RStrip(LStrip(s))

\* text[a:b] with 0-based, end-exclusive Python indices, a >= 0
Slice(text, a, b) ==
    IF a >= Len(text) THEN ""
    ELSE SubSeq(text, a + 1, IF b > Len(text) THEN Len(text) ELSE b)

\* text.index(term): 0-based index of the first occurrence (term is in text)
IndexOf(term, text) ==
    (CHOOSE i \in 1..Len(text) :
        /\ At(term, text, i)
        /\ \A k \in 1..(i - 1) : ~At(term, text, k)) - 1

\* first position >= i that holds no digit / no whitespace
RECURSIVE SkipDigits(_, _)
SkipDigits(text, i) ==
    IF i <= Len(text) /\ IsDigit(Char(text, i)) THEN SkipDigits(text, i + 1) ELSE i

RECURSIVE SkipSpaces(_, _)
SkipSpaces(text, i) ==
    IF i <= Len(text) /\ IsSpace(Char(text, i)) THEN SkipSpaces(text, i + 1) ELSE i

RECURSIVE SkipDigitsCommas(_, _)
SkipDigitsCommas(text, i) ==
    IF i <= Len(text) /\ (IsDigit(Char(text, i)) \/ Char(text, i) = ",")
    THEN SkipDigitsCommas(text, i + 1) ELSE i

Abs(x) == IF x < 0 THEN -x ELSE x

\* the number a run of decimal digits writes, commas skipped
RECURSIVE BFromDigits(_, _)
BFromDigits(s, acc) ==
    IF Len(s) = 0 THEN acc
    ELSE IF Char(s, 1) = "," THEN BFromDigits(SubSeq(s, 2, Len(s)), acc)
    ELSE BFromDigits(SubSeq(s, 2, Len(s)),
                     BAdd(BMulSmall(acc, 10), BInt(DigitVal(Char(s, 1)))))

\* float("<int>") and float("<int>.<frac>")
FloatOf(intPart, fracPart) ==
    FDecimal(BFromDigits(intPart \o fracPart, <<>>), Len(fracPart))

(***************************************************************************)
(* Number formatting of the descriptions                                   *)
(***************************************************************************)

\* f"{x:.0f}"
Fmt0f(x) == BToString(FScaledRound(x, 0))

\* digits with a comma before every group of three
RECURSIVE Commas(_)
Commas(digits) ==
    IF Len(digits) <= 3 THEN digits
    ELSE Commas(SubSeq(digits, 1, Len(digits) - 3)) \o ","
         \o SubSeq(digits, Len(digits) - 2, Len(digits))

\* f"{x:,.0f}"
FmtComma0f(x) == Commas(Fmt0f(x))

\* f"{x:.0%}": the float x * 100 in .0f
FmtPct0(x) == Fmt0f(FMul(x, FInt(100))) \o "%"

Fmt2fOf(digits) ==
    SubSeq(digits, 1, Len(digits) - 2) \o "."
    \o SubSeq(digits, Len(digits) - 1, Len(digits))

Fmt2fPad(digits) ==
    Fmt2fOf(IF Len(digits) < 3 THEN SubSeq("00", 1, 3 - Len(digits)) \o digits
            ELSE digits)

\* f"{x:.2f}"
Fmt2f(x) == Fmt2fPad(BToString(FScaledRound(x, 2)))

(***************************************************************************)
(* _DURATION_PATTERN  (\d+(?:\.\d+)?)\s*(day|days|week|weeks|month|months) *)
(***************************************************************************)

\* the alternatives of group 2 in the order the regex tries them
DurationUnits == <<"day", "days", "week", "weeks", "month", "months">>

\* first alternative of  alts  that matches at position  r  whatever the
\* case of the text (re.IGNORECASE), "" when none does
RECURSIVE FirstAt(_, _, _, _)
FirstAt(alts, text, r, k) ==
    IF k > Len(alts) THEN ""
    ELSE IF /\ r + Len(alts[k]) - 1 <= Len(text)
            /\ Lower(SubSeq(text, r, r + Len(alts[k]) - 1)) = alts[k]
         THEN alts[k]
    ELSE FirstAt(alts, text, r, k + 1)

\* the elements of a set of positions in increasing order
SortedSeq(P) ==
    [k \in 1..Cardinality(P) |->
        CHOOSE p \in P : Cardinality({q \in P : q < p}) = k - 1]

\* the attempt to match the pattern with its first digit at  p
DurationAt(text, p) ==
    LET q == SkipDigits(text, p)
        hasFrac == /\ q + 1 <= Len(text)
                   /\ Char(text, q) = "."
                   /\ IsDigit(Char(text, q + 1))
        q2 == IF hasFrac THEN SkipDigits(text, q + 1) ELSE q
        r == SkipSpaces(text, q2)
        unit == FirstAt(DurationUnits, text, r, 1)
    IN  [ok |-> unit # "",
         int |-> SubSeq(text, p, q - 1),
         frac |-> IF hasFrac THEN SubSeq(text, q + 1, q2 - 1) ELSE "",
         unit |-> unit,
         fracStart |-> IF hasFrac THEN q + 1 ELSE 0]

\* p starts a run of digits
RunStart(text, p) ==
    /\ IsDigit(Char(text, p))
    /\ (p = 1 \/ ~IsDigit(Char(text, p - 1)))

\* start of the run of digits that ends at position  e
RECURSIVE RunStartOf(_, _)
RunStartOf(text, e) ==
    IF e > 1 /\ IsDigit(Char(text, e - 1)) THEN RunStartOf(text, e - 1) ELSE e

\* the regex matches with its first digit at the run start  p: the attempt
\* succeeds and  p  is not the fraction of a match that began one run earlier.
\* (An attempt inside a run fails or succeeds with the attempt at its start.)
RECURSIVE DurationStartsAt(_, _)
DurationStartsAt(text, p) ==
    /\ RunStart(text, p)
    /\ DurationAt(text, p).ok
    /\ ~ (/\ p > 2
          /\ Char(text, p - 1) = "."
          /\ IsDigit(Char(text, p - 2))
          /\ LET p0 == RunStartOf(text, p - 2)
             IN  DurationStartsAt(text, p0) /\ DurationAt(text, p0).fracStart = p)

\* _DURATION_PATTERN.finditer(text): the matches [int, frac, unit], left to
\* right and non-overlapping
DurationScan(text) ==
    LET starts == SortedSeq({p \in 1..Len(text) : DurationStartsAt(text, p)})
    IN  [k \in 1..Len(starts) |-> DurationAt(text, starts[k])]

DurationTab ==
    Tabled([t \in LowerContents |-> DurationScan(t)])

DurationMatches(text) == Memo(DurationTab, text, DurationScan(text))

_normalize_duration_to_days(match) ==
    LET value == FloatOf(match.int, match.frac)
        unit == Lower(match.unit)
    IN  IF At("week", unit, 1) THEN FMul(value, FInt(7))
        ELSE IF At("month", unit, 1) THEN FMul(value, FInt(30))
        ELSE value

(***************************************************************************)
(* _DOLLAR_PATTERN  \$\s*([\d,]+(?:\.\d+)?)\s*(B|M|K|billion|million|thousand)? *)
(***************************************************************************)

\* the alternatives of group 2 in the order the regex tries them (IGNORECASE)
DollarSuffixes == <<"b", "m", "k", "billion", "million", "thousand">>

\* the attempt to match the pattern with its "$" at  p
DollarAt(text, p) ==
    LET s == SkipSpaces(text, p + 1)
        q == SkipDigitsCommas(text, s)
        hasFrac == /\ q + 1 <= Len(text)
                   /\ Char(text, q) = "."
                   /\ IsDigit(Char(text, q + 1))
        q2 == IF hasFrac THEN SkipDigits(text, q + 1) ELSE q
        r == SkipSpaces(text, q2)
    IN  [ok |-> Char(text, p) = "$" /\ q > s,
         int |-> SubSeq(text, s, q - 1),
         frac |-> IF hasFrac THEN SubSeq(text, q + 1, q2 - 1) ELSE "",
         suffix |-> FirstAt(DollarSuffixes, text, r, 1)]

\* _DOLLAR_PATTERN.finditer(text): the matches [int, frac, suffix], left to
\* right; a match holds no second "$", so the attempts do not interfere
DollarScan(text) ==
    LET starts == SortedSeq({p \in 1..Len(text) : DollarAt(text, p).ok})
    IN  [k \in 1..Len(starts) |-> DollarAt(text, starts[k])]

DollarTab ==
    Tabled([c \in Contents |-> DollarScan(c)])

DollarMatches(text) == Memo(DollarTab, text, DollarScan(text))

\* what float(raw) raises on a text without digits
ValueError == << <<>>, -1 >>

\* raw.replace(",", "") leaves no digit: float("") raises ValueError
NoDigits(s) == \A i \in 1..Len(s) : Char(s, i) = ","

_normalize_dollar(match) ==
    LET suffix == match.suffix
        multiplier ==
            CASE suffix \in {"b", "billion"} -> 1000000000
              [] suffix \in {"m", "million"} -> 1000000
              [] suffix \in {"k", "thousand"} -> 1000
              [] OTHER -> 1
    IN  IF NoDigits(match.int) /\ match.frac = "" THEN ValueError
        ELSE FMul(FloatOf(match.int, match.frac), FInt(multiplier))

_text_lower(finding) == Lower(finding.content)

_has_keywords(text, keywords) == \E kw \in keywords : In(kw, text)

\* the tiers in the order the loop visits them
SeverityLevels == <<"critical", "high", "medium", "low">>

\* None is modelled by the empty string
RECURSIVE SeverityLabelFrom(_, _)
SeverityLabelFrom(text_lower, k) ==
    IF k > Len(SeverityLevels) THEN ""
    ELSE IF \E kw \in _SEVERITY_KEYWORDS[SeverityLevels[k]] : In(kw, text_lower)
         THEN SeverityLevels[k]
    ELSE SeverityLabelFrom(text_lower, k + 1)

\* the tiers scanned from the lowest up
_extract_severity_label_lowest(text) ==
    LET found == { k \in 1..Len(SeverityLevels) :
                     \E kw \in _SEVERITY_KEYWORDS[SeverityLevels[k]] : In(kw, Lower(text)) }
    IN  IF found = {} THEN ""
        ELSE SeverityLevels[CHOOSE k \in found : \A m \in found : m <= k]

_extract_severity_label(text) == SeverityLabelFrom(Lower(text), 1)

(***************************************************************************)
(* Records of src/src/state/models.py                                      *)
(***************************************************************************)

FindingTypes == {"observation", "analysis", "recommendation", "action"}

Severities == {"low", "medium", "high"}

\* Finding; confidence is a float, timestamp counts creations
Finding(agent_name, finding_type, content, confidence, timestamp) ==
    [agent_name |-> agent_name, finding_type |-> finding_type,
     content |-> content, confidence |-> confidence,
     evidence_refs |-> <<>>, timestamp |-> timestamp]

\* Optional[str]: <<>> is None, <<text>> is the text
None == <<>>

\* a Contradiction whose resolved field defaults to true
ContradictionResolved(id, finding_a, finding_b, description, severity) ==
    [id |-> id, finding_a |-> finding_a, finding_b |-> finding_b,
     description |-> description, severity |-> severity,
     resolution |-> None, resolved |-> TRUE]

\* Contradiction(finding_a=..., finding_b=..., description=..., severity=...);
\* id is the uuid4 the default factory draws, stamped by the caller below
Contradiction(id, finding_a, finding_b, description, severity) ==
    [id |-> id, finding_a |-> finding_a, finding_b |-> finding_b,
     description |-> description, severity |-> severity,
     resolution |-> None, resolved |-> FALSE]

\* what a rule yields for a pair on which float() raises
Raise == [exception |-> "ValueError"]

IsRaise(r) == "exception" \in DOMAIN r

(***************************************************************************)
(* Iteration helpers                                                       *)
(***************************************************************************)

\* for i in range(n): for j in range(i + 1, n), 1-based
RECURSIVE PairsFrom(_, _, _)
PairsFrom(i, j, n) ==
    IF i >= n THEN <<>>
    ELSE IF j > n THEN PairsFrom(i + 1, i + 2, n)
    ELSE << <<i, j>> >> \o PairsFrom(i, j + 1, n)

RECURSIVE Flatten(_)
Flatten(ss) == IF Len(ss) = 0 THEN <<>> ELSE ss[1] \o Flatten(Tail(ss))

\* results.append(...) over the nested loop, in loop order
ForEachPair(list, Body(_, _)) ==
    LET ps == PairsFrom(1, 2, Len(list))
    IN  Flatten([k \in 1..Len(ps) |-> Body(list[ps[k][1]], list[ps[k][2]])])

\* [f(m) for m in matches]
MapSeq(f(_), s) == [k \in 1..Len(s) |-> f(s[k])]

\* the elements of  order  that are in  set, in that order, joined by ", "
RECURSIVE JoinIn(_, _, _)
JoinIn(order, set, k) ==
    IF k > Len(order) THEN ""
    ELSE IF order[k] \in set
         THEN LET rest == JoinIn(order, set \ {order[k]}, k + 1)
              IN  IF rest = "" THEN order[k] ELSE order[k] \o ", " \o rest
    ELSE JoinIn(order, set, k + 1)

\* a sequence rotated left by  n  places
Rotate(seq, n) ==
    [k \in 1..Len(seq) |-> seq[((k - 1 + n) % Len(seq)) + 1]]

(***************************************************************************)
(* State                                                                   *)
(***************************************************************************)

VARIABLES
    hash_seed,       \* the process's string hash seed: fixes set iteration order
    agent_outputs,   \* dict[str, AgentOutput] in insertion order: <<[key, findings]>>
    contradictions,  \* the list the last detect returned (state.contradictions)
    detect_log,      \* the lists detect has returned, as they were on return
    uuid_count,      \* how many uuid4 values the process has drawn
    exc,             \* "" or the exception the last call raised
    advice,          \* <<>> or <<[contradiction, text]>>: last suggest_resolution call
    passes,          \* classify_severity calls made on the current list
    calls,           \* engine entry points invoked so far, in order
    run,             \* locals and WorkbenchState fields of WorkbenchOrchestrator.run
    pc,              \* where the caller, or run, stands
    resolver,        \* the fields of a ContradictionResolver
    should_log,      \* the should_continue calls made on it, in order
    loop_pc,         \* where the loop around should_continue stands
    manager,         \* the fields of a StateManager
    heap,            \* the WorkbenchState objects and their dicts, by reference
    held,            \* the references to states that the caller holds
    called,          \* the last call made by that caller, and how it ended
    collector,       \* the class attributes and the instances of MetricsCollector
    threads          \* the threads that construct and use the collector

\* the contradiction engine and the orchestrator
engine == <<hash_seed, agent_outputs, contradictions, detect_log, uuid_count,
            exc, advice, passes, calls, run, pc>>

\* the collaborators of the engine
resolving == <<resolver, should_log, loop_pc>>

managing == <<manager, heap, held, called>>

collecting == <<collector, threads>>

services == <<resolving, managing, collecting>>

vars == <<hash_seed, agent_outputs, contradictions, detect_log, uuid_count,
          exc, advice, passes, calls, run, pc, resolver, should_log, loop_pc,
          manager, heap, held, called, collector, threads>>

\* before the first run() call
NoRun ==
    [trigger |-> "", intent |-> "", required_agents |-> <<>>, status |-> "",
     versions |-> <<>>, created |-> 0, so_what |-> "", cycles |-> 0]

\* ContradictionResolver(max_iterations=3)
DefaultIterations == 3

\* ContradictionResolver.__init__
ContradictionResolver(max_iterations) ==
    [max_iterations |-> max_iterations, current_iteration |-> 0,
     resolved_contradictions |-> <<>>, unresolved_contradictions |-> <<>>,
     resolution_history |-> <<>>]

\* should_continue counting only the iterations it lets through
should_continue_counting_true(self, remaining_contradictions) ==
    IF remaining_contradictions = 0 \/ self.current_iteration + 1 >= self.max_iterations
    THEN [self |-> self, result |-> FALSE]
    ELSE [self |-> [self EXCEPT !.current_iteration = @ + 1], result |-> TRUE]

\* what the increment leaves of self, and what is returned
ShouldContinueOn(counted, remaining_contradictions) ==
    [self |-> counted,
     result |-> IF remaining_contradictions = 0 THEN FALSE
                ELSE IF counted.current_iteration >= counted.max_iterations THEN FALSE
                ELSE TRUE]

\* ContradictionResolver.should_continue: self afterwards, and the result
should_continue(self, remaining_contradictions) ==
    ShouldContinueOn([self EXCEPT !.current_iteration = @ + 1], remaining_contradictions)

\* the heap: object k is heap[k]. A WorkbenchState is [status, agent_outputs],
\* agent_outputs being a reference to its dict; a dict is [items]. The other
\* fields of WorkbenchState are copied alike and are left out.
WorkbenchState(status, outputs_ref) == [status |-> status, agent_outputs |-> outputs_ref]

Dict(items) == [items |-> items]

\* d[key] = value
DictSet(d, key, value) ==
    [k \in DOMAIN d \cup {key} |-> IF k = key THEN value ELSE d[k]]

\* WorkbenchState(case_file=..., status=status): a new state and its dict
Construct(h, status) ==
    [heap |-> h \o << Dict(<<>>), WorkbenchState(status, Len(h) + 1) >>,
     ref |-> Len(h) + 2]

\* what a state holds, its dict included
DeepValue(h, ref) ==
    [status |-> h[ref].status, agent_outputs |-> h[h[ref].agent_outputs].items]

\* copy.copy(state): a new state object on the dict of the old one
copy_shallow(h, ref) == [heap |-> Append(h, h[ref]), ref |-> Len(h) + 1]

\* copy.deepcopy(state): a new state object on a new dict
deepcopy(h, ref) ==
    [heap |-> h \o << Dict(h[h[ref].agent_outputs].items),
                      WorkbenchState(h[ref].status, Len(h) + 1) >>,
     ref |-> Len(h) + 2]

\* StateManager.__init__; an entry of _history is (version, timestamp,
\* snapshot), the timestamp being read by get_state_history only
StateManager == [_history |-> <<>>, _next_version |-> 1]

\* the version numbers of the history, in order
VersionsOf(self) == [k \in 1..Len(self._history) |-> self._history[k].version]

\* what save_state leaves once the snapshot has been taken
SaveSnapshot(self, copied) ==
    [manager |-> [self EXCEPT !._history = Append(@, [version |-> self._next_version,
                                                       snapshot |-> copied.ref]),
                              !._next_version = @ + 1],
     heap |-> copied.heap, raised |-> FALSE, result |-> self._next_version]

\* StateManager.save_state(state)
save_state(self, h, state) == SaveSnapshot(self, deepcopy(h, state))

\* raise ValueError(...)
ManagerRaise(self, h) == [manager |-> self, heap |-> h, raised |-> TRUE, result |-> 0]

\* return deepcopy(snap)
ManagerReturn(self, copied) ==
    [manager |-> self, heap |-> copied.heap, raised |-> FALSE, result |-> copied.ref]

\* StateManager.get_state(version)
get_state(self, h, version) ==
    IF self._history = <<>> THEN ManagerRaise(self, h)
    ELSE IF version = -1
         THEN ManagerReturn(self, deepcopy(h, self._history[Len(self._history)].snapshot))
    ELSE IF \E k \in 1..Len(self._history) : self._history[k].version = version
         THEN LET k == CHOOSE j \in 1..Len(self._history) :
                           /\ self._history[j].version = version
                           /\ \A i \in 1..(j - 1) : self._history[i].version # version
              IN  ManagerReturn(self, deepcopy(h, self._history[k].snapshot))
    ELSE ManagerRaise(self, h)

\* rollback cutting the history back to the version it is given
rollback_truncating(self, h, version) ==
    LET got == get_state(self, h, version)
    IN  IF got.raised THEN got
        ELSE [got EXCEPT !.manager._history =
                 SelectSeq(self._history, LAMBDA e : e.version <= version)]

\* the rest of rollback once get_state has returned target_state
RollbackTo(self, got) ==
    LET saved == save_state(self, got.heap, got.result)
    IN  ManagerReturn(saved.manager, deepcopy(saved.heap, got.result))

\* StateManager.rollback(version)
rollback(self, h, version) ==
    LET got == get_state(self, h, version)
    IN  IF got.raised THEN got ELSE RollbackTo(self, got)

\* the state update_status returns, made of the copy
StatusSet(self, copied, new_status) ==
    [manager |-> self, heap |-> [copied.heap EXCEPT ![copied.ref].status = new_status],
     raised |-> FALSE, result |-> copied.ref]

\* StateManager.update_status(state, new_status)
update_status(self, h, state, new_status) == StatusSet(self, deepcopy(h, state), new_status)

\* the state update_agent_output returns, made of the copy
OutputSet(self, copied, agent_name, output) ==
    [manager |-> self,
     heap |-> [copied.heap EXCEPT ![copied.heap[copied.ref].agent_outputs].items =
                                      DictSet(@, agent_name, output)],
     raised |-> FALSE, result |-> copied.ref]

\* StateManager.update_agent_output(state, agent_name, output)
update_agent_output(self, h, state, agent_name, output) ==
    OutputSet(self, deepcopy(h, state), agent_name, output)

\* StateManager.latest_version: <<>> is None
latest_version(self) ==
    IF self._history = <<>> THEN <<>> ELSE << self._history[Len(self._history)].version >>

\* StateManager.version_count
version_count(self) == Len(self._history)

\* before any call on the manager
NoCall == [op |-> "", arg |-> 0, raised |-> FALSE, result |-> 0]

\* no resolver is in use
ResolverIdle ==
    /\ resolver = ContradictionResolver(DefaultIterations)
    /\ should_log = <<>>
    /\ loop_pc = "idle"

\* the manager has been constructed and nothing else
ManagerIdle ==
    /\ manager = StateManager
    /\ heap = <<>>
    /\ held = {}
    /\ called = NoCall

\* the class attributes of MetricsCollector before any construction;
\* _instance is 0 for None or a place in objects, _init_lock is 0 when free
\* or the thread that holds it, objects are the instances created so far
MetricsCollector ==
    [_instance |-> 0, _init_lock |-> 0, _initialized |-> FALSE, objects |-> <<>>]

\* super().__new__(cls): an instance without attributes; inits counts how
\* often __init__ has set its counters
NewCollector == [_lock |-> FALSE, _tool_call_count |-> <<>>, inits |-> 0]

\* if cls._instance is None, in __new__
InstanceMissing(cls) == cls._instance = 0

\* __init__ without its guard on _initialized
InitNeededAlways(cls) == TRUE

\* if MetricsCollector._initialized: return, in __init__
InitNeeded(cls) == ~cls._initialized

\* a thread that has not called MetricsCollector() yet
NewThread == [pc |-> "start", self |-> 0, got |-> 0, made |-> 0, recorded |-> 0, exc |-> ""]

\* no thread has called MetricsCollector()
CollectorIdle ==
    /\ collector = MetricsCollector
    /\ threads = <<>>

\* no collaborator is in use
ServicesIdle == ResolverIdle /\ ManagerIdle /\ CollectorIdle

\* the engine is not in use
EngineIdle ==
    /\ hash_seed = 1
    /\ run = NoRun
    /\ agent_outputs = <<>>
    /\ contradictions = <<>>
    /\ detect_log = <<>>
    /\ uuid_count = 0
    /\ exc = ""
    /\ advice = <<>>
    /\ passes = 0
    /\ calls = <<>>
    /\ pc = "idle"

(***************************************************************************)
(* Rule 1: CPI/SPI direction disagreement                                  *)
(***************************************************************************)

\* rule 1 with the condition of the pair loop kept in one order only
DirectionPairOneWay(a, b) ==
    IF a.agent_name = b.agent_name THEN <<>>
    ELSE IF /\ _has_keywords(_text_lower(a), _IMPROVING_KEYWORDS)
            /\ _has_keywords(_text_lower(b), _WORSENING_KEYWORDS)
         THEN << Contradiction(0, a, b,
                    "CPI/SPI direction disagreement: "
                    \o "'" \o a.agent_name \o "' indicates improvement"
                    \o " while '" \o b.agent_name \o "' indicates decline.",
                    "high") >>
         ELSE <<>>

DirectionPair(a, b) ==
    IF a.agent_name = b.agent_name THEN <<>>
    ELSE LET text_a == _text_lower(a)
             text_b == _text_lower(b)
             a_improving == _has_keywords(text_a, _IMPROVING_KEYWORDS)
             a_worsening == _has_keywords(text_a, _WORSENING_KEYWORDS)
             b_improving == _has_keywords(text_b, _IMPROVING_KEYWORDS)
             b_worsening == _has_keywords(text_b, _WORSENING_KEYWORDS)
         IN  IF (a_improving /\ b_worsening) \/ (a_worsening /\ b_improving)
             THEN << Contradiction(0, a, b,
                        "CPI/SPI direction disagreement: "
                        \o "'" \o a.agent_name \o "' indicates "
                        \o (IF a_improving THEN "improvement" ELSE "decline")
                        \o " while '" \o b.agent_name \o "' indicates "
                        \o (IF b_improving THEN "improvement" ELSE "decline")
                        \o ".",
                        "high") >>
             ELSE <<>>

_rule_cpi_spi_direction(findings) ==
    LET evm_findings ==
            SelectSeq(findings, LAMBDA f : \E t \in evm_terms : In(t, _text_lower(f)))
    IN  ForEachPair(evm_findings, DirectionPair)

(***************************************************************************)
(* Rule 2: risk assessment severity conflict                               *)
(***************************************************************************)

RiskStopWords == {"the", "a", "an", "is", "are", "of", "in", "to", "and"}

RiskOverlapMin == 5

RiskGapHigh == 2

\* severity_order.index(label), 0-based
SeverityOrderIndex(label) ==
    CASE label = "low" -> 0 [] label = "medium" -> 1
      [] label = "high" -> 2 [] label = "critical" -> 3

RiskPair(a, b) ==
    IF a.agent_name = b.agent_name THEN <<>>
    ELSE LET sev_a == _extract_severity_label(_text_lower(a))
             sev_b == _extract_severity_label(_text_lower(b))
         IN  IF sev_a # "" /\ sev_b # "" /\ sev_a # sev_b
             THEN LET words_a == SplitSet(_text_lower(a))
                      words_b == SplitSet(_text_lower(b))
                      \* Python parses  a & b - c  as  a & (b - c)
                      overlap == words_a \cap (words_b \ RiskStopWords)
                      gap == Abs(SeverityOrderIndex(sev_a) - SeverityOrderIndex(sev_b))
                      sev == IF gap >= RiskGapHigh THEN "high" ELSE "medium"
                  IN  IF Cardinality(overlap) >= RiskOverlapMin
                      THEN << Contradiction(0, a, b,
                                "Risk severity conflict: "
                                \o "'" \o a.agent_name \o "' rates as " \o sev_a
                                \o " while '" \o b.agent_name \o "' rates as "
                                \o sev_b \o ".",
                                sev) >>
                      ELSE <<>>
             ELSE <<>>

_rule_risk_severity_conflict(findings) ==
    LET risk_findings ==
            SelectSeq(findings, LAMBDA f : \E t \in risk_terms : In(t, _text_lower(f)))
    IN  ForEachPair(risk_findings, RiskPair)

(***************************************************************************)
(* Rule 3: schedule impact mismatch                                        *)
(***************************************************************************)

\* ratio > 1.5 flags, ratio > 2.0 is high
ScheduleRatioFlag == FDecimal(BInt(15), 1)

ScheduleRatioHigh == FInt(2)

\* max() of a non-empty list of floats
RECURSIVE FMaxOf(_)
FMaxOf(list) == IF Len(list) = 1 THEN list[1] ELSE FMax(list[1], FMaxOf(Tail(list)))

\* days = [_normalize_duration_to_days(m) for m in finditer(text)] and its
\* max(): <<>> when the text holds no duration, <<max>> otherwise
MaxDaysFrom(durations) ==
    IF Len(durations) = 0 THEN <<>>
    ELSE << FMaxOf(MapSeq(_normalize_duration_to_days, durations)) >>

MaxDaysTab ==
    Tabled([t \in LowerContents |-> MaxDaysFrom(DurationScan(t))])

MaxDays(text) == Memo(MaxDaysTab, text, MaxDaysFrom(DurationScan(text)))

\* "none" when ratio > 1.5 fails, the severity otherwise
ScheduleSeverity(ratio) ==
    IF FLess(ScheduleRatioFlag, ratio)
    THEN (IF FLess(ScheduleRatioHigh, ratio) THEN "high" ELSE "medium")
    ELSE "none"

\* from  if max_a > 0 and max_b > 0  on
ScheduleCompare(max_a, max_b) ==
    IF FLess(FZero, max_a) /\ FLess(FZero, max_b)
    THEN ScheduleSeverity(FDiv(FMax(max_a, max_b), FMin(max_a, max_b)))
    ELSE "none"

\* the comparisons and the .0f texts of the durations of the model's texts,
\* computed once
Squared(S) == S \X S

FirstsOf(tab, none) == { tab[t][1] : t \in { u \in DOMAIN tab : tab[u] \notin none } }

DayValues == FirstsOf(MaxDaysTab, {<<>>})

ScheduleTab ==
    Tabled([pair \in Squared(DayValues) |-> ScheduleCompare(pair[1], pair[2])])

DaysTextTab ==
    Tabled([v \in DayValues |-> Fmt0f(v)])

ScheduleVerdict(max_a, max_b) ==
    Memo(ScheduleTab, <<max_a, max_b>>, ScheduleCompare(max_a, max_b))

DaysText(v) == Memo(DaysTextTab, v, Fmt0f(v))

\* f"{max_a:.0f}" and f"{max_b:.0f}"
DaysTextsOf(values) == [k \in 1..2 |-> DaysText(values[k])]

ScheduleEmit(a, b, texts, sev) ==
    IF sev = "none" THEN <<>>
    ELSE << Contradiction(0, a, b,
              "Schedule impact mismatch: "
              \o "'" \o a.agent_name \o "' estimates "
              \o "~" \o texts[1] \o " days while "
              \o "'" \o b.agent_name \o "' estimates "
              \o "~" \o texts[2] \o " days.",
              sev) >>

\* if durations_a and durations_b: ...
ScheduleBody(a, b, days) ==
    IF days[1] # <<>> /\ days[2] # <<>>
    THEN ScheduleEmit(a, b, DaysTextsOf(<<days[1][1], days[2][1]>>),
                      ScheduleVerdict(days[1][1], days[2][1]))
    ELSE <<>>

\* days_a and days_b, drawn from the lower-cased texts of a and b
DaysOfBoth(pair) == [k \in 1..2 |-> MaxDays(_text_lower(pair[k]))]

SchedulePair(a, b) ==
    IF a.agent_name = b.agent_name THEN <<>>
    ELSE ScheduleBody(a, b, DaysOfBoth(<<a, b>>))

_rule_schedule_impact_mismatch(findings) ==
    LET schedule_findings ==
            SelectSeq(findings, LAMBDA f : \E t \in schedule_terms : In(t, _text_lower(f)))
    IN  ForEachPair(schedule_findings, SchedulePair)

(***************************************************************************)
(* Rule 4: cost estimate (EAC) divergence                                  *)
(***************************************************************************)

\* pct_diff > 0.10 flags, pct_diff > 0.25 is high
CostDivergenceFlag == FDecimal(BInt(10), 2)

CostDivergenceHigh == FDecimal(BInt(25), 2)

\* dollars = [_normalize_dollar(m) for m in finditer(text)] and its max():
\* <<>> when the text holds no amount, <<ValueError>> when float() raises
MaxDollarsOn(dollars) ==
    IF \E k \in 1..Len(dollars) : dollars[k] = ValueError THEN << ValueError >>
    ELSE IF Len(dollars) = 0 THEN <<>>
    ELSE << FMaxOf(dollars) >>

MaxDollarsFrom(matches) == MaxDollarsOn(MapSeq(_normalize_dollar, matches))

MaxDollarsTab ==
    Tabled([c \in Contents |-> MaxDollarsFrom(DollarScan(c))])

MaxDollars(text) == Memo(MaxDollarsTab, text, MaxDollarsFrom(DollarScan(text)))

\* [sev, pct]: sev "none" when pct_diff > 0.10 fails; pct is f"{pct_diff:.0%}"
CostSeverity(pct_diff) ==
    IF FLess(CostDivergenceFlag, pct_diff)
    THEN [sev |-> IF FLess(CostDivergenceHigh, pct_diff) THEN "high" ELSE "medium",
          pct |-> FmtPct0(pct_diff)]
    ELSE [sev |-> "none", pct |-> ""]

\* from  if max_a > 0 and max_b > 0  on
CostCompare(max_a, max_b) ==
    IF FLess(FZero, max_a) /\ FLess(FZero, max_b)
    THEN CostSeverity(FDiv(FAbsDiff(max_a, max_b), FMin(max_a, max_b)))
    ELSE [sev |-> "none", pct |-> ""]

\* the comparisons and the ,.0f texts of the amounts of the model's texts,
\* computed once
DollarValues == FirstsOf(MaxDollarsTab, {<<>>, <<ValueError>>})

CostTab ==
    Tabled([pair \in Squared(DollarValues) |-> CostCompare(pair[1], pair[2])])

DollarsTextTab ==
    Tabled([v \in DollarValues |-> FmtComma0f(v)])

CostVerdict(max_a, max_b) ==
    Memo(CostTab, <<max_a, max_b>>, CostCompare(max_a, max_b))

DollarsText(v) == Memo(DollarsTextTab, v, FmtComma0f(v))

\* f"{max_a:,.0f}" and f"{max_b:,.0f}"
DollarsTextsOf(values) == [k \in 1..2 |-> DollarsText(values[k])]

CostEmit(a, b, texts, verdict) ==
    IF verdict.sev = "none" THEN <<>>
    ELSE << Contradiction(0, a, b,
              "Cost estimate divergence ("
              \o verdict.pct \o "): "
              \o "'" \o a.agent_name \o "' cites "
              \o "$" \o texts[1] \o " while "
              \o "'" \o b.agent_name \o "' cites "
              \o "$" \o texts[2] \o ".",
              verdict.sev) >>

\* if dollars_a and dollars_b: ...
CostBody(a, b, dollars) ==
    IF dollars[1] = <<ValueError>> \/ dollars[2] = <<ValueError>> THEN << Raise >>
    ELSE IF dollars[1] # <<>> /\ dollars[2] # <<>>
    THEN CostEmit(a, b, DollarsTextsOf(<<dollars[1][1], dollars[2][1]>>),
                  CostVerdict(dollars[1][1], dollars[2][1]))
    ELSE <<>>

\* dollars_a and dollars_b, drawn from the texts of a and b as written
DollarsOfBoth(pair) == [k \in 1..2 |-> MaxDollars(pair[k].content)]

CostPair(a, b) ==
    IF a.agent_name = b.agent_name THEN <<>>
    ELSE CostBody(a, b, DollarsOfBoth(<<a, b>>))

_rule_cost_estimate_divergence(findings) ==
    LET cost_findings ==
            SelectSeq(findings, LAMBDA f : \E t \in cost_terms : In(t, _text_lower(f)))
    IN  ForEachPair(cost_findings, CostPair)

(***************************************************************************)
(* Rule 5: root cause disagreement                                         *)
(***************************************************************************)

\* Iterating a Python set of strings visits it in an order that the hash
\* seed of the process fixes; the seed selects one of these orders.
CauseTermOrder(seed) ==
    Rotate(<<"root cause", "caused by", "attributed to", "driven by", "due to",
             "because of">>, seed - 1)

TopicOrder(seed) ==
    Rotate(<<"cost", "schedule", "quality", "supplier", "rework",
             "assembly", "wing", "fastener", "composite", "labor",
             "material", "delivery", "manufacturing", "tooling",
             "design", "engineering", "testing", "production",
             "avionics", "structures", "integration", "software">>, seed - 1)

SharedTopicsMin == 2

SnippetLen == 80

\* the loop left at the first phrase both texts hold, whatever follows it
CauseScanFirstShared(a, b, text_a, text_b, shared_topics, seed, k) ==
    LET order == CauseTermOrder(seed)
        both == { n \in k..Len(order) : In(order[n], text_a) /\ In(order[n], text_b) }
    IN  IF both = {} THEN <<>>
        ELSE LET term == order[CHOOSE n \in both : \A m \in both : n <= m]
                 cause_a_idx == IndexOf(term, text_a) + Len(term)
                 cause_b_idx == IndexOf(term, text_b) + Len(term)
             IN  IF Strip(Slice(text_a, cause_a_idx, cause_a_idx + SnippetLen))
                    # Strip(Slice(text_b, cause_b_idx, cause_b_idx + SnippetLen))
                 THEN << Contradiction(0, a, b,
                           "Root cause disagreement on "
                           \o JoinIn(TopicOrder(seed), shared_topics, 1) \o ": "
                           \o "'" \o a.agent_name \o "' vs "
                           \o "'" \o b.agent_name \o "' identify "
                           \o "different underlying causes.",
                           "medium") >>
                 ELSE <<>>

\* the body of  for term in cause_terms  from the k-th term on; the loop
\* breaks after the first contradiction
RECURSIVE CauseScan(_, _, _, _, _, _, _)
CauseScan(a, b, text_a, text_b, shared_topics, seed, k) ==
    IF k > Len(CauseTermOrder(seed)) THEN <<>>
    ELSE LET term == CauseTermOrder(seed)[k]
         IN  IF In(term, text_a) /\ In(term, text_b)
             THEN LET cause_a_idx == IndexOf(term, text_a) + Len(term)
                      cause_b_idx == IndexOf(term, text_b) + Len(term)
                      cause_snippet_a ==
                          Strip(Slice(text_a, cause_a_idx, cause_a_idx + SnippetLen))
                      cause_snippet_b ==
                          Strip(Slice(text_b, cause_b_idx, cause_b_idx + SnippetLen))
                  IN  IF cause_snippet_a # cause_snippet_b
                      THEN << Contradiction(0, a, b,
                                "Root cause disagreement on "
                                \o JoinIn(TopicOrder(seed), shared_topics, 1) \o ": "
                                \o "'" \o a.agent_name \o "' vs "
                                \o "'" \o b.agent_name \o "' identify "
                                \o "different underlying causes.",
                                "medium") >>
                      ELSE CauseScan(a, b, text_a, text_b, shared_topics, seed, k + 1)
             ELSE CauseScan(a, b, text_a, text_b, shared_topics, seed, k + 1)

CausePair(a, b, seed) ==
    IF a.agent_name = b.agent_name THEN <<>>
    ELSE LET text_a == _text_lower(a)
             text_b == _text_lower(b)
             words_a == SplitSet(text_a) \cap meaningful_words
             words_b == SplitSet(text_b) \cap meaningful_words
             shared_topics == words_a \cap words_b
         IN  IF Cardinality(shared_topics) >= SharedTopicsMin
             THEN CauseScan(a, b, text_a, text_b, shared_topics, seed, 1)
             ELSE <<>>

_rule_root_cause_disagreement(findings, seed) ==
    LET cause_findings ==
            SelectSeq(findings, LAMBDA f : \E t \in cause_terms : In(t, _text_lower(f)))
    IN  ForEachPair(cause_findings, LAMBDA a, b : CausePair(a, b, seed))

(***************************************************************************)
(* Rule 6: mitigation / corrective action conflict                         *)
(***************************************************************************)

IsRecOrAction(f) == f.finding_type \in {"recommendation", "action"}

\* the loop over the opposite sets left after its first contradiction
MitigationPairOnce(a, b) ==
    LET hits == { k \in 1..Len(conflict_pairs) :
                    \/ /\ _has_keywords(_text_lower(a), conflict_pairs[k].set_x)
                       /\ _has_keywords(_text_lower(b), conflict_pairs[k].set_y)
                    \/ /\ _has_keywords(_text_lower(a), conflict_pairs[k].set_y)
                       /\ _has_keywords(_text_lower(b), conflict_pairs[k].set_x) }
    IN  IF a.agent_name = b.agent_name \/ hits = {} THEN <<>>
        ELSE << Contradiction(0, a, b,
                  "Mitigation conflict on "
                  \o conflict_pairs[CHOOSE k \in hits : \A m \in hits : k <= m].conflict_desc
                  \o ": " \o "'" \o a.agent_name \o "' vs " \o "'" \o b.agent_name \o "'.",
                  "high") >>

MitigationPair(a, b) ==
    IF a.agent_name = b.agent_name THEN <<>>
    ELSE LET text_a == _text_lower(a)
             text_b == _text_lower(b)
             One(cp) ==
                 LET a_in_x == _has_keywords(text_a, cp.set_x)
                     a_in_y == _has_keywords(text_a, cp.set_y)
                     b_in_x == _has_keywords(text_b, cp.set_x)
                     b_in_y == _has_keywords(text_b, cp.set_y)
                 IN  IF (a_in_x /\ b_in_y) \/ (a_in_y /\ b_in_x)
                     THEN << Contradiction(0, a, b,
                               "Mitigation conflict on " \o cp.conflict_desc \o ": "
                               \o "'" \o a.agent_name \o "' vs "
                               \o "'" \o b.agent_name \o "'.",
                               "high") >>
                     ELSE <<>>
         IN  Flatten(MapSeq(One, conflict_pairs))

_rule_mitigation_conflict(findings) ==
    LET rec_findings == SelectSeq(findings, IsRecOrAction)
    IN  ForEachPair(rec_findings, MitigationPair)

(***************************************************************************)
(* Rule 7: confidence disparity on same finding type                       *)
(***************************************************************************)

trivial ==
    {"the", "a", "an", "is", "are", "of", "in", "to", "and", "for", "that",
     "this", "with"}

\* gap <= 0.3 is skipped, gap <= 0.5 is medium
ConfidenceGapFlag == FDecimal(BInt(3), 1)

ConfidenceGapHigh == FDecimal(BInt(5), 1)

ConfidenceOverlapMin == 4

\* rule 7 rating a gap of at most 0.5 low
ConfidenceSeverityLow(gap) ==
    IF ~FLess(ConfidenceGapFlag, gap) THEN [sev |-> "none", gap |-> ""]
    ELSE [sev |-> IF ~FLess(ConfidenceGapHigh, gap) THEN "low" ELSE "high",
          gap |-> Fmt2f(gap)]

\* [sev, gap]: sev "none" when gap <= 0.3; gap is f"{gap:.2f}"
ConfidenceSeverity(gap) ==
    IF ~FLess(ConfidenceGapFlag, gap) THEN [sev |-> "none", gap |-> ""]
    ELSE [sev |-> IF ~FLess(ConfidenceGapHigh, gap) THEN "medium" ELSE "high",
          gap |-> Fmt2f(gap)]

\* gap = abs(a.confidence - b.confidence) and what follows from it
ConfidenceCompare(conf_a, conf_b) == ConfidenceSeverity(FAbsDiff(conf_a, conf_b))

\* the comparisons and the .2f texts of the confidences of the model's
\* statements, computed once
ConfidenceValues ==
    { st.confidence : st \in Statements } \cup { c.confidence : c \in ConfidenceCases }

ConfidenceTab ==
    Tabled([pair \in Squared(ConfidenceValues) |-> ConfidenceCompare(pair[1], pair[2])])

ConfidenceTextTab ==
    Tabled([v \in ConfidenceValues |-> Fmt2f(v)])

ConfidenceVerdict(conf_a, conf_b) ==
    Memo(ConfidenceTab, <<conf_a, conf_b>>, ConfidenceCompare(conf_a, conf_b))

ConfidenceText(v) == Memo(ConfidenceTextTab, v, Fmt2f(v))

\* f"{a.confidence:.2f}" and f"{b.confidence:.2f}"
ConfidenceTextsOf(values) == [k \in 1..2 |-> ConfidenceText(values[k])]

\* set(a.content.lower().split()) and set(b.content.lower().split())
WordsOfBoth(pair) == [k \in 1..2 |-> SplitSet(_text_lower(pair[k]))]

ConfidenceEmitOn(a, b, words, texts, verdict) ==
    IF verdict.sev = "none" THEN <<>>
    ELSE IF Cardinality((words[1] \cap words[2]) \ trivial) >= ConfidenceOverlapMin
    THEN << Contradiction(0, a, b,
              "Confidence disparity (" \o verdict.gap \o ") on "
              \o a.finding_type \o " findings: "
              \o "'" \o a.agent_name \o "' at "
              \o texts[1] \o " "
              \o "vs '" \o b.agent_name \o "' at "
              \o texts[2] \o ".",
              verdict.sev) >>
    ELSE <<>>

ConfidenceEmit(a, b, verdict) ==
    ConfidenceEmitOn(a, b, WordsOfBoth(<<a, b>>),
                     ConfidenceTextsOf(<<a.confidence, b.confidence>>), verdict)

\* rule 7 without its same-agent guard
ConfidencePairAnyAgent(a, b) ==
    IF a.finding_type # b.finding_type THEN <<>>
    ELSE ConfidenceEmit(a, b, ConfidenceVerdict(a.confidence, b.confidence))

ConfidencePair(a, b) ==
    IF a.agent_name = b.agent_name THEN <<>>
    ELSE IF a.finding_type # b.finding_type THEN <<>>
    ELSE ConfidenceEmit(a, b, ConfidenceVerdict(a.confidence, b.confidence))

_rule_confidence_disparity(findings) == ForEachPair(findings, ConfidencePair)

(***************************************************************************)
(* Inputs                                                                  *)
(***************************************************************************)

\* bounds of the model
MaxFindings == 2

MaxRuleFindings == 2

MaxDetects == 2

MaxClassifyCalls == 1

NSeeds == 2

MaxContradictions == 3

MaxPasses == 2

MaxCycles == 2

Agents == {"cam_agent", "risk_agent"}

\* the lists of len findings whose agents and statements are drawn from the
\* given sets; the k-th finding is the k-th one created
FindingListsOfLen(agents, statements, len) ==
    { [k \in 1..len |->
         Finding(pick[k][1], pick[k][2].finding_type, pick[k][2].content,
                 pick[k][2].confidence, k)] :
      pick \in [1..len -> agents \X statements] }

\* the lists of at most n findings
FindingLists(agents, statements, n) ==
    UNION { FindingListsOfLen(agents, statements, len) : len \in 0..n }

\* outputs[f.agent_name].findings.append(f), creating the output when absent
StoreFinding(outputs, f) ==
    IF \E k \in 1..Len(outputs) : outputs[k].key = f.agent_name
    THEN [k \in 1..Len(outputs) |->
            IF outputs[k].key = f.agent_name
            THEN [outputs[k] EXCEPT !.findings = Append(@, f)]
            ELSE outputs[k]]
    ELSE Append(outputs, [key |-> f.agent_name, findings |-> <<f>>])

RECURSIVE StoreAll(_, _)
StoreAll(outputs, fs) ==
    IF Len(fs) = 0 THEN outputs ELSE StoreAll(StoreFinding(outputs, fs[1]), Tail(fs))

(***************************************************************************)
(* ContradictionDetector.detect                                            *)
(***************************************************************************)

\* for output in agent_outputs.values(): all_findings.extend(output.findings)
AllFindings(outputs) == Flatten([k \in 1..Len(outputs) |-> outputs[k].findings])

\* the seven rules in call order; a rule that raises ends the call, so the
\* lists of the later rules are never built
RECURSIVE UpToRaise(_)
UpToRaise(list) ==
    IF Len(list) = 0 THEN <<>>
    ELSE IF IsRaise(list[1]) THEN << Raise >>
    ELSE << list[1] >> \o UpToRaise(Tail(list))

\* the contradictions of a list that are the first about their finding pair
RECURSIVE FirstPerPair(_, _)
FirstPerPair(list, seen) ==
    IF Len(list) = 0 THEN <<>>
    ELSE IF IsRaise(list[1]) THEN list
    ELSE IF <<list[1].finding_a, list[1].finding_b>> \in seen
         THEN FirstPerPair(Tail(list), seen)
    ELSE << list[1] >>
         \o FirstPerPair(Tail(list), seen \cup {<<list[1].finding_a, list[1].finding_b>>})

\* the results of the rules with a finding pair reported once only
RulesAfterOncePerPair(upto4, all_findings, seed) ==
    IF Len(upto4) > 0 /\ IsRaise(upto4[Len(upto4)]) THEN upto4
    ELSE FirstPerPair(upto4
                      \o _rule_root_cause_disagreement(all_findings, seed)
                      \o _rule_mitigation_conflict(all_findings)
                      \o _rule_confidence_disparity(all_findings), {})

RulesAfter(upto4, all_findings, seed) ==
    IF Len(upto4) > 0 /\ IsRaise(upto4[Len(upto4)]) THEN upto4
    ELSE upto4
         \o _rule_root_cause_disagreement(all_findings, seed)
         \o _rule_mitigation_conflict(all_findings)
         \o _rule_confidence_disparity(all_findings)

RunRules(all_findings, seed) ==
    RulesAfter(UpToRaise(_rule_cpi_spi_direction(all_findings)
                         \o _rule_risk_severity_conflict(all_findings)
                         \o _rule_schedule_impact_mismatch(all_findings)
                         \o _rule_cost_estimate_divergence(all_findings)),
               all_findings, seed)

RulesOn(all_findings, seed) == RunRules(all_findings, seed)

\* every Contradiction(...) draws a fresh uuid4; the k-th one this process
\* draws is modelled by the number k
\* ids that restart at 1 in every call
WithIdsRestarted(list, drawn) == [k \in 1..Len(list) |-> [list[k] EXCEPT !.id = k]]

WithIds(list, drawn) == [k \in 1..Len(list) |-> [list[k] EXCEPT !.id = drawn + k]]

\* detect: [raised, created, result] where created counts the Contradiction
\* objects that were constructed
DetectMade(made, drawn) ==
    IF Len(made) > 0 /\ IsRaise(made[Len(made)])
    THEN [raised |-> TRUE, created |-> Len(made) - 1, result |-> <<>>]
    ELSE [raised |-> FALSE, created |-> Len(made), result |-> WithIds(made, drawn)]

DetectOn(all_findings, drawn, seed) ==
    IF Len(all_findings) < 2
    THEN [raised |-> FALSE, created |-> 0, result |-> <<>>]
    ELSE DetectMade(RulesOn(all_findings, seed), drawn)

detect(outputs, drawn, seed) == DetectOn(AllFindings(outputs), drawn, seed)

(***************************************************************************)
(* ContradictionDetector.classify_severity                                 *)
(***************************************************************************)

EscalationPairCount == 3

\* the pair key without sorted(): (a, b) and (b, a) are different keys
AgentPairOrdered(c) == <<c.finding_a.agent_name, c.finding_b.agent_name>>

\* tuple(sorted([a, b])): equal for (a, b) and (b, a), so the set {a, b}
AgentPair(c) == {c.finding_a.agent_name, c.finding_b.agent_name}

\* pair_counts.get(pair, 0) after the counting loop
pair_counts(list, pair) == Cardinality({k \in 1..Len(list) : AgentPair(list[k]) = pair})

\* the second escalation with "or" between the two type tests
EscalateEitherType(c, count) ==
    LET s1 == IF count >= EscalationPairCount /\ c.severity = "low" THEN "medium"
              ELSE IF count >= EscalationPairCount /\ c.severity = "medium" THEN "high"
              ELSE c.severity
        s2 == IF /\ IsRecOrAction(c.finding_a) \/ IsRecOrAction(c.finding_b)
                 /\ s1 = "low"
              THEN "medium" ELSE s1
    IN  [c EXCEPT !.severity = s2]

\* the first escalation without its elif branch
EscalateLowOnly(c, count) ==
    IF c.severity = "low"
       /\ (count >= EscalationPairCount
           \/ (IsRecOrAction(c.finding_a) /\ IsRecOrAction(c.finding_b)))
    THEN [c EXCEPT !.severity = "medium"]
    ELSE c

\* the pair escalation written as two ifs instead of if and elif
EscalateTwoIfs(c, count) ==
    LET s0 == IF count >= EscalationPairCount /\ c.severity = "low" THEN "medium"
              ELSE c.severity
        s1 == IF count >= EscalationPairCount /\ s0 = "medium" THEN "high" ELSE s0
        s2 == IF /\ IsRecOrAction(c.finding_a)
                 /\ IsRecOrAction(c.finding_b)
                 /\ s1 = "low"
              THEN "medium" ELSE s1
    IN  [c EXCEPT !.severity = s2]

\* one pass of the second loop over one contradiction
Escalate(c, count) ==
    LET s1 == IF count >= EscalationPairCount /\ c.severity = "low" THEN "medium"
              ELSE IF count >= EscalationPairCount /\ c.severity = "medium" THEN "high"
              ELSE c.severity
        s2 == IF /\ IsRecOrAction(c.finding_a)
                 /\ IsRecOrAction(c.finding_b)
                 /\ s1 = "low"
              THEN "medium" ELSE s1
    IN  [c EXCEPT !.severity = s2]

\* the escalation noted on the first finding of each escalated contradiction
classify_severity_noting(list) ==
    IF Len(list) = 0 THEN list
    ELSE [k \in 1..Len(list) |->
            IF Escalate(list[k], pair_counts(list, AgentPair(list[k]))) = list[k]
            THEN list[k]
            ELSE [Escalate(list[k], pair_counts(list, AgentPair(list[k])))
                     EXCEPT !.finding_a.evidence_refs = << "escalated" >>]]

\* the escalated contradictions moved to the front of the list
classify_severity_raised_first(list) ==
    IF Len(list) = 0 THEN list
    ELSE LET done == [k \in 1..Len(list) |->
                        Escalate(list[k], pair_counts(list, AgentPair(list[k])))]
         IN  SelectSeq(done, LAMBDA c : c \notin { list[k] : k \in 1..Len(list) })
             \o SelectSeq(done, LAMBDA c : c \in { list[k] : k \in 1..Len(list) })

\* the counts taken while the second loop runs: the k-th contradiction is
\* escalated against the count of the first k
classify_severity_running(list) ==
    IF Len(list) = 0 THEN list
    ELSE [k \in 1..Len(list) |->
            Escalate(list[k], pair_counts(SubSeq(list, 1, k), AgentPair(list[k])))]

\* the counts are taken before the second loop starts and agent names do
\* not change, so each element is escalated against the same counts
classify_severity(list) ==
    IF Len(list) = 0 THEN list
    ELSE [k \in 1..Len(list) |-> Escalate(list[k], pair_counts(list, AgentPair(list[k])))]

(***************************************************************************)
(* ContradictionDetector.suggest_resolution                                *)
(***************************************************************************)

\* the tests with the root cause test moved before the cost test
ResolutionBranchCauseFirst(desc_lower) ==
    IF In("cpi", desc_lower) \/ In("spi", desc_lower) \/ In("direction", desc_lower)
    THEN 1
    ELSE IF In("risk", desc_lower) /\ In("severity", desc_lower) THEN 2
    ELSE IF In("schedule", desc_lower)
            /\ (In("mismatch", desc_lower) \/ In("impact", desc_lower)) THEN 3
    ELSE IF In("root cause", desc_lower) THEN 5
    ELSE IF In("cost", desc_lower) \/ In("eac", desc_lower)
            \/ In("divergence", desc_lower) THEN 4
    ELSE IF In("mitigation", desc_lower) \/ In("conflict", desc_lower) THEN 6
    ELSE IF In("confidence", desc_lower) \/ In("disparity", desc_lower) THEN 7
    ELSE 8

\* which of the return statements is taken, 1..8 in source order
ResolutionBranch(desc_lower) ==
    IF In("cpi", desc_lower) \/ In("spi", desc_lower) \/ In("direction", desc_lower)
    THEN 1
    ELSE IF In("risk", desc_lower) /\ In("severity", desc_lower) THEN 2
    ELSE IF In("schedule", desc_lower)
            /\ (In("mismatch", desc_lower) \/ In("impact", desc_lower)) THEN 3
    ELSE IF In("cost", desc_lower) \/ In("eac", desc_lower)
            \/ In("divergence", desc_lower) THEN 4
    ELSE IF In("root cause", desc_lower) THEN 5
    ELSE IF In("mitigation", desc_lower) \/ In("conflict", desc_lower) THEN 6
    ELSE IF In("confidence", desc_lower) \/ In("disparity", desc_lower) THEN 7
    ELSE 8

ResolutionText(branch, agent_a, agent_b) ==
    CASE branch = 1 ->
            "Resolution: Convene a joint review between " \o agent_a \o " and "
            \o agent_b \o " "
            \o "to align on the underlying EVM data. Verify that both agents are "
            \o "analyzing the same reporting period and WBS scope. If the disagreement "
            \o "persists, defer to the CPR Format 1 data as the authoritative source "
            \o "and flag the discrepancy for the program manager."
      [] branch = 2 ->
            "Resolution: Apply the DoD 5x5 risk matrix consistently. Have "
            \o agent_a \o " "
            \o "and " \o agent_b \o " independently re-score using the standardized likelihood "
            \o "and consequence definitions. If scores still differ, escalate to the "
            \o "Risk Review Board for adjudication with documented rationale."
      [] branch = 3 ->
            "Resolution: Cross-reference both estimates against the IMS critical "
            \o "path analysis. Validate assumptions about parallel vs. serial task "
            \o "execution, resource availability, and dependency logic. The IMS "
            \o "network schedule should be the single source of truth for duration "
            \o "estimates."
      [] branch = 4 ->
            "Resolution: Reconcile EAC methodologies. Verify whether agents are "
            \o "using CPI-based (EAC = BAC/CPI), composite index, or bottom-up "
            \o "estimates. Align on a single EAC methodology per program guidance "
            \o "and document the basis of estimate. Present all three EAC methods "
            \o "in the variance analysis report for leadership visibility."
      [] branch = 5 ->
            "Resolution: Conduct a structured root cause analysis (e.g., Ishikawa "
            \o "or 5-Why) with participation from both " \o agent_a \o " and "
            \o agent_b \o ". "
            \o "Multiple root causes may be valid (contributing factors). Document "
            \o "the causal chain and weight each factor's contribution before "
            \o "selecting corrective actions."
      [] branch = 6 ->
            "Resolution: Evaluate both proposed corrective actions using a "
            \o "cost-benefit analysis. Consider whether the actions are truly "
            \o "mutually exclusive or can be sequenced (e.g., short-term mitigation "
            \o "followed by longer-term strategic change). Present trade-offs to "
            \o "the program manager for a decision informed by both perspectives."
      [] branch = 7 ->
            "Resolution: Examine the evidence base underlying each agent's "
            \o "confidence level. The agent with lower confidence should identify "
            \o "what additional data would increase certainty. Consider whether "
            \o "the higher-confidence agent has access to data the other lacks, "
            \o "and share information to converge on a justified confidence level."
      [] branch = 8 ->
            "Resolution: Schedule a reconciliation review between " \o agent_a
            \o " and "
            \o agent_b \o ". Each agent should present its evidence, methodology, and "
            \o "assumptions. Identify the root cause of the disagreement and document "
            \o "the agreed resolution with supporting rationale."

\* the return statement a description selects
BranchOf(description) == ResolutionBranch(Lower(description))

\* suggest_resolution reading the severity as well: the generic text for a
\* high contradiction
suggest_resolution_by_severity(contradiction) ==
    LET agent_a == contradiction.finding_a.agent_name
        agent_b == contradiction.finding_b.agent_name
    IN  ResolutionText(IF contradiction.severity = "high" THEN 8
                       ELSE BranchOf(contradiction.description), agent_a, agent_b)

suggest_resolution(contradiction) ==
    LET agent_a == contradiction.finding_a.agent_name
        agent_b == contradiction.finding_b.agent_name
    IN  ResolutionText(BranchOf(contradiction.description), agent_a, agent_b)

(***************************************************************************)
(* The engine driven through its three entry points                        *)
(***************************************************************************)

Init ==
    /\ hash_seed \in 1..NSeeds
    /\ run = NoRun
    /\ \E len \in 0..MaxFindings :
           \E fs \in FindingListsOfLen(Agents, Statements, len) :
               agent_outputs = StoreAll(<<>>, fs)
    /\ contradictions = <<>>
    /\ detect_log = <<>>
    /\ uuid_count = 0
    /\ exc = ""
    /\ advice = <<>>
    /\ passes = 0
    /\ calls = <<>>
    /\ pc = "api"
    /\ ServicesIdle

\* what the caller holds once detect has returned r or raised
DetectGot(r) ==
    /\ uuid_count' = uuid_count + r.created
    /\ IF r.raised
       THEN /\ exc' = "ValueError"
            /\ UNCHANGED <<contradictions, detect_log>>
       ELSE /\ contradictions' = r.result
            /\ detect_log' = Append(detect_log,
                                    [input |-> agent_outputs, result |-> r.result])
            /\ exc' = ""

\* contradictions = detector.detect(agent_outputs)
Detect ==
    /\ pc = "api"
    /\ exc = ""
    /\ Len(detect_log) < MaxDetects
    /\ DetectGot(detect(agent_outputs, uuid_count, hash_seed))
    /\ passes' = 0
    /\ UNCHANGED <<run, hash_seed, agent_outputs, advice, calls, pc>>
    /\ UNCHANGED services

\* finding_a and finding_b of a Contradiction are the Finding objects of
\* the agent outputs, not copies: a stored finding reads as the last
\* contradiction of the list that refers to it has it
SeenThrough(f, list) ==
    LET refs == { n \in 1..Len(list) :
                    f.timestamp \in {list[n].finding_a.timestamp, list[n].finding_b.timestamp} }
    IN  IF refs = {} THEN f
        ELSE LET last == CHOOSE n \in refs : \A m \in refs : m <= n
             IN  IF list[last].finding_b.timestamp = f.timestamp
                 THEN list[last].finding_b
                 ELSE list[last].finding_a

SharedFindings(outputs, list) ==
    [k \in 1..Len(outputs) |->
        [outputs[k] EXCEPT
            !.findings = [i \in 1..Len(outputs[k].findings) |->
                             SeenThrough(outputs[k].findings[i], list)]]]

\* detector.classify_severity(contradictions): the list is changed in place
ClassifySeverity ==
    /\ pc = "api"
    /\ exc = ""
    /\ Len(detect_log) > 0
    /\ passes < MaxClassifyCalls
    /\ contradictions' = classify_severity(contradictions)
    /\ agent_outputs' = SharedFindings(agent_outputs, contradictions')
    /\ passes' = passes + 1
    /\ UNCHANGED <<run, hash_seed, detect_log, uuid_count, exc, advice, calls, pc>>
    /\ UNCHANGED services

\* text = detector.suggest_resolution(contradictions[k])
SuggestResolution(k) ==
    /\ pc = "api"
    /\ exc = ""
    /\ k \in 1..Len(contradictions)
    /\ advice' = << [contradiction |-> contradictions[k],
                     text |-> suggest_resolution(contradictions[k])] >>
    /\ UNCHANGED <<run, hash_seed, agent_outputs, contradictions, detect_log, uuid_count,
                   exc, passes, calls, pc>>
    /\ UNCHANGED services

Next ==
    \/ Detect
    \/ ClassifySeverity
    \/ \E k \in 1..Len(contradictions) : SuggestResolution(k)

Spec == Init /\ [][Next]_vars

(***************************************************************************)
(* Properties of detect                                                    *)
(***************************************************************************)

SameAgent(fs) == \A i, j \in 1..Len(fs) : fs[i].agent_name = fs[j].agent_name

\* C1: every contradiction any detect call returned names two different
\* agents, and a call whose findings all carry one agent name returned the
\* empty list, whatever the contents, types and confidences.
C1_DistinctAgents ==
    \A e \in 1..Len(detect_log) :
        LET r  == detect_log[e].result
            fs == AllFindings(detect_log[e].input)
        IN  /\ \A k \in 1..Len(r) :
                   r[k].finding_a.agent_name # r[k].finding_b.agent_name
            /\ SameAgent(fs) => r = <<>>

\* the other agent name of the model
OtherAgent(name) == CHOOSE other \in Agents : other # name

\* a call returned nothing for two findings of one agent that the rules do
\* report once the first of them is attributed to the other agent
C1_Witness ==
    \E e \in 1..Len(detect_log) :
        LET fs == AllFindings(detect_log[e].input)
        IN  /\ Len(fs) = 2
            /\ SameAgent(fs)
            /\ detect_log[e].result = <<>>
            /\ RunRules(<< [fs[1] EXCEPT !.agent_name = OtherAgent(@)], fs[2] >>,
                        hash_seed) # <<>>

SameButId(c, d) ==
    /\ c.finding_a = d.finding_a
    /\ c.finding_b = d.finding_b
    /\ c.description = d.description
    /\ c.severity = d.severity
    /\ c.resolution = d.resolution
    /\ c.resolved = d.resolved

\* all (call, position) places of the contradictions detect has returned
Returned ==
    UNION { { <<e, k>> : k \in 1..Len(detect_log[e].result) } :
              e \in 1..Len(detect_log) }

CaseStatements(cases) ==
    { Statement("analysis", c.content, FDecimal(BInt(5), 1)) : c \in cases }

RuleInit(cases, at) ==
    /\ hash_seed = 1
    /\ run = NoRun
    /\ \E len \in 0..MaxRuleFindings :
           \E fs \in FindingListsOfLen(Agents, CaseStatements(cases), len) :
               agent_outputs = StoreAll(<<>>, fs)
    /\ contradictions = <<>>
    /\ detect_log = <<>>
    /\ uuid_count = 0
    /\ exc = ""
    /\ advice = <<>>
    /\ passes = 0
    /\ calls = <<>>
    /\ pc = at
    /\ ServicesIdle

\* results = self._rule_...(all_findings), as detect calls it
RuleStep(at, made) ==
    /\ pc = at
    /\ pc' = "returned"
    /\ IF Len(made) > 0 /\ IsRaise(made[Len(made)])
       THEN /\ exc' = "ValueError"
            /\ uuid_count' = uuid_count + Len(made) - 1
            /\ UNCHANGED contradictions
       ELSE /\ contradictions' = WithIds(made, uuid_count)
            /\ uuid_count' = uuid_count + Len(made)
            /\ UNCHANGED exc
    /\ UNCHANGED <<run, hash_seed, agent_outputs, detect_log, advice, passes, calls>>
    /\ UNCHANGED services

InitDirection == RuleInit(DirectionCases, "rule_1")

RuleDirection ==
    RuleStep("rule_1", _rule_cpi_spi_direction(AllFindings(agent_outputs)))

SpecDirection == InitDirection /\ [][RuleDirection]_vars

InitSchedule == RuleInit(ScheduleCases, "rule_3")

RuleSchedule ==
    RuleStep("rule_3", _rule_schedule_impact_mismatch(AllFindings(agent_outputs)))

SpecSchedule == InitSchedule /\ [][RuleSchedule]_vars

InitCost == RuleInit(CostCases, "rule_4")

RuleCost ==
    RuleStep("rule_4", UpToRaise(_rule_cost_estimate_divergence(AllFindings(agent_outputs))))

SpecCost == InitCost /\ [][RuleCost]_vars

\* the findings the rule was given, and the case a finding states
Given == AllFindings(agent_outputs)

CaseOf(cases, f) == CHOOSE c \in cases : c.content = f.content

\* how many of the returned contradictions are about the i-th and j-th finding
Emitted(i, j) ==
    Cardinality({ k \in 1..Len(contradictions) :
                    /\ contradictions[k].finding_a = Given[i]
                    /\ contradictions[k].finding_b = Given[j] })

\* the returned contradictions about the i-th and j-th finding have severity sev
EmittedAs(i, j, sev) ==
    \A k \in 1..Len(contradictions) :
        (contradictions[k].finding_a = Given[i] /\ contradictions[k].finding_b = Given[j])
            => contradictions[k].severity = sev

\* the pairs the nested loops visit
LoopPairs == { <<i, j>> \in (1..Len(Given)) \X (1..Len(Given)) : i < j }

\* every returned contradiction is about a pair of the loops
OnlyLoopPairs ==
    \A k \in 1..Len(contradictions) :
        \E pair \in LoopPairs :
            /\ contradictions[k].finding_a = Given[pair[1]]
            /\ contradictions[k].finding_b = Given[pair[2]]

Min(x, y) == IF x < y THEN x ELSE y

Max(x, y) == IF x < y THEN y ELSE x

\* C2: after rule 4, a pair of findings of different agents that both hold a
\* cost term and an amount has exactly one contradiction when both maxima
\* are positive and |a - b| / min(a, b) > 0.10, of severity high when the
\* quotient exceeds 0.25 and medium otherwise; every other pair has none.
C2_CostDivergence ==
    pc = "returned" /\ exc = "" =>
        /\ OnlyLoopPairs
        /\ \A pair \in LoopPairs :
               LET a == CaseOf(CostCases, Given[pair[1]])
                   b == CaseOf(CostCases, Given[pair[2]])
                   diff == Abs(a.cents - b.cents)
                   least == Min(a.cents, b.cents)
               IN  IF /\ Given[pair[1]].agent_name # Given[pair[2]].agent_name
                      /\ a.cost /\ b.cost
                      /\ a.cents > 0 /\ b.cents > 0
                      /\ 10 * diff > least
                   THEN /\ Emitted(pair[1], pair[2]) = 1
                        /\ EmittedAs(pair[1], pair[2],
                                     IF 4 * diff > least THEN "high" ELSE "medium")
                   ELSE Emitted(pair[1], pair[2]) = 0

\* C3: after rule 3, a pair of findings of different agents that both hold a
\* schedule term and a duration has exactly one contradiction when both
\* maxima are positive and max(a, b) / min(a, b) > 1.5, of severity high when
\* the ratio exceeds 2.0 and medium otherwise; every other pair has none.
C3_ScheduleMismatch ==
    pc = "returned" =>
        /\ OnlyLoopPairs
        /\ \A pair \in LoopPairs :
               LET a == CaseOf(ScheduleCases, Given[pair[1]])
                   b == CaseOf(ScheduleCases, Given[pair[2]])
                   most == Max(a.tenths, b.tenths)
                   least == Min(a.tenths, b.tenths)
               IN  IF /\ Given[pair[1]].agent_name # Given[pair[2]].agent_name
                      /\ a.schedule /\ b.schedule
                      /\ a.tenths > 0 /\ b.tenths > 0
                      /\ 2 * most > 3 * least
                   THEN /\ Emitted(pair[1], pair[2]) = 1
                        /\ EmittedAs(pair[1], pair[2],
                                     IF most > 2 * least THEN "high" ELSE "medium")
                   ELSE Emitted(pair[1], pair[2]) = 0

\* C4: after rule 1, a pair of findings of different agents that both name a
\* performance index has exactly one contradiction, of severity high, when
\* one of them reads as improving and the other as worsening, in either
\* order; every other pair has none.
C4_DirectionDisagreement ==
    pc = "returned" =>
        /\ OnlyLoopPairs
        /\ \A pair \in LoopPairs :
               LET a == CaseOf(DirectionCases, Given[pair[1]])
                   b == CaseOf(DirectionCases, Given[pair[2]])
               IN  IF /\ Given[pair[1]].agent_name # Given[pair[2]].agent_name
                      /\ a.evm /\ b.evm
                      /\ \/ a.improving /\ b.worsening
                         \/ a.worsening /\ b.improving
                   THEN /\ Emitted(pair[1], pair[2]) = 1
                        /\ EmittedAs(pair[1], pair[2], "high")
                   ELSE Emitted(pair[1], pair[2]) = 0

\* rule 1 has reported a pair whose first finding worsens and whose second
\* improves: the order opposite to the one the description is named after
C4_Witness ==
    /\ pc = "returned"
    /\ \E pair \in LoopPairs :
           /\ CaseOf(DirectionCases, Given[pair[1]]).worsening
           /\ ~CaseOf(DirectionCases, Given[pair[1]]).improving
           /\ CaseOf(DirectionCases, Given[pair[2]]).improving
           /\ ~CaseOf(DirectionCases, Given[pair[2]]).worsening
           /\ Emitted(pair[1], pair[2]) = 1
           /\ EmittedAs(pair[1], pair[2], "high")

(***************************************************************************)
(* classify_severity applied to lists of contradictions                    *)
(***************************************************************************)

\* finding_a and finding_b agents: one pair in both orders, and another pair
ClassifyPairs ==
    { <<"cam_agent", "risk_agent">>, <<"risk_agent", "cam_agent">>,
      <<"cam_agent", "rca_agent">> }

\* finding types: both recommendation or action, and not both
ClassifyTypes == { <<"recommendation", "action">>, <<"analysis", "recommendation">> }

\* Finding.confidence when the caller gives none: 0.5
DefaultConfidence == FDecimal(BInt(5), 1)

\* a contradiction the caller has settled outside the engine
Settled(c) == [c EXCEPT !.resolution = << "Resolution: settled in review." >>,
                        !.resolved = TRUE]

\* the lists of len contradictions a caller can hand over; the k-th one
\* holds the k-th id and the findings created for it, and the second one
\* has been settled by the caller
ContradictionListsOfLen(len) ==
    { [k \in 1..len |->
         IF k = 2
         THEN Settled(Contradiction(k,
                  Finding(pick[k][1][1], pick[k][2][1], "finding a",
                          DefaultConfidence, 2 * k - 1),
                  Finding(pick[k][1][2], pick[k][2][2], "finding b",
                          DefaultConfidence, 2 * k),
                  "Contradiction", pick[k][3]))
         ELSE Contradiction(k,
                  Finding(pick[k][1][1], pick[k][2][1], "finding a",
                          DefaultConfidence, 2 * k - 1),
                  Finding(pick[k][1][2], pick[k][2][2], "finding b",
                          DefaultConfidence, 2 * k),
                  "Contradiction", pick[k][3])] :
      pick \in [1..len -> ClassifyPairs \X ClassifyTypes \X Severities] }

InitClassify ==
    /\ hash_seed = 1
    /\ run = NoRun
    /\ agent_outputs = <<>>
    /\ \E len \in 0..MaxContradictions :
           contradictions \in ContradictionListsOfLen(len)
    /\ detect_log = <<>>
    /\ uuid_count = Len(contradictions)
    /\ exc = ""
    /\ advice = <<>>
    /\ passes = 0
    /\ calls = <<>>
    /\ pc = "classify"
    /\ ServicesIdle

\* contradictions = classify_severity(contradictions): the list is changed
\* in place and returned
ClassifyPass ==
    /\ pc = "classify"
    /\ passes < MaxPasses
    /\ contradictions' = classify_severity(contradictions)
    /\ calls' = Append(calls, [op |-> "classify_severity", arg |-> contradictions,
                               result |-> contradictions'])
    /\ passes' = passes + 1
    /\ UNCHANGED <<run, hash_seed, agent_outputs, detect_log, uuid_count, exc, advice, pc>>
    /\ UNCHANGED services

SpecClassify == InitClassify /\ [][ClassifyPass]_vars

\* the classify_severity calls made so far
ClassifyCalls == { n \in 1..Len(calls) : calls[n].op = "classify_severity" }

\* how many contradictions of the list are between the two agents of its
\* k-th one, in either order
BetweenSame(list, k) ==
    Cardinality({ j \in 1..Len(list) :
        \/ /\ list[j].finding_a.agent_name = list[k].finding_a.agent_name
           /\ list[j].finding_b.agent_name = list[k].finding_b.agent_name
        \/ /\ list[j].finding_a.agent_name = list[k].finding_b.agent_name
           /\ list[j].finding_b.agent_name = list[k].finding_a.agent_name })

BothRecOrAction(c) ==
    /\ c.finding_a.finding_type \in {"recommendation", "action"}
    /\ c.finding_b.finding_type \in {"recommendation", "action"}

\* C5: in every classify_severity call, a contradiction whose two agents have
\* at least 3 contradictions in the list, counted in either order, goes from
\* low to medium or from medium to high, and none goes from low to high.
C5_PairEscalation ==
    \A n \in ClassifyCalls :
        /\ Len(calls[n].result) = Len(calls[n].arg)
        /\ \A k \in 1..Len(calls[n].arg) :
              LET before == calls[n].arg[k].severity
                  after == calls[n].result[k].severity
              IN  /\ BetweenSame(calls[n].arg, k) >= 3 /\ before = "low"
                        => after = "medium"
                  /\ BetweenSame(calls[n].arg, k) >= 3 /\ before = "medium"
                        => after = "high"
                  /\ before = "low" => after # "high"

\* a call on three low contradictions between the same two agents, not all
\* in the same order and none with both findings recommendation or action,
\* after which all three are medium
C5_Witness ==
    \E n \in ClassifyCalls :
        /\ Len(calls[n].arg) = 3
        /\ \A k \in 1..3 :
              /\ calls[n].arg[k].severity = "low"
              /\ ~BothRecOrAction(calls[n].arg[k])
              /\ BetweenSame(calls[n].arg, k) = 3
              /\ calls[n].result[k].severity = "medium"
        /\ calls[n].arg[1].finding_a.agent_name # calls[n].arg[2].finding_a.agent_name

\* C6: in every classify_severity call, a low contradiction whose findings
\* are both recommendation or action becomes medium whatever its pair
\* count, and a contradiction whose pair has fewer than 3 contradictions and
\* whose findings are not both recommendation or action keeps its severity.
C6_TypeEscalation ==
    \A n \in ClassifyCalls :
        \A k \in 1..Len(calls[n].arg) :
            LET c == calls[n].arg[k]
            IN  /\ c.severity = "low" /\ BothRecOrAction(c)
                      => calls[n].result[k].severity = "medium"
                /\ BetweenSame(calls[n].arg, k) < 3 /\ ~BothRecOrAction(c)
                      => calls[n].result[k].severity = c.severity

\* one call in which a low contradiction alone in its pair became medium
\* for its types, and a low one with a single recommendation stayed low
C6_Witness ==
    \E n \in ClassifyCalls :
        /\ \E k \in 1..Len(calls[n].arg) :
              /\ calls[n].arg[k].severity = "low"
              /\ BothRecOrAction(calls[n].arg[k])
              /\ BetweenSame(calls[n].arg, k) = 1
              /\ calls[n].result[k].severity = "medium"
        /\ \E k \in 1..Len(calls[n].arg) :
              /\ calls[n].arg[k].severity = "low"
              /\ IsRecOrAction(calls[n].arg[k].finding_b)
              /\ ~BothRecOrAction(calls[n].arg[k])
              /\ BetweenSame(calls[n].arg, k) < 3
              /\ calls[n].result[k].severity = "low"

(***************************************************************************)
(* The resolution texts                                                    *)
(***************************************************************************)

\* descriptions, each with the terms its lower-cased text contains
ResolutionCases ==
    {
      [description |-> "CPI/SPI direction disagreement: 'cam_agent' indicates improvement while 'risk_agent' indicates decline.",
       marks |-> {"cpi", "spi", "direction", "risk"}],
      [description |-> "Risk severity conflict on supplier: one rates high while the other rates low.",
       marks |-> {"risk", "severity", "conflict"}],
      [description |-> "Schedule impact mismatch: one estimates ~10 days while the other estimates ~25 days.",
       marks |-> {"schedule", "mismatch", "impact"}],
      [description |-> "Cost estimate divergence (30%): one cites $500,000 while the other cites $650,000.",
       marks |-> {"cost", "divergence"}],
      [description |-> "Root cause disagreement on assembly, wing: different underlying causes.",
       marks |-> {"root cause"}],
      [description |-> "Root cause disagreement on cost, delivery: different underlying causes.",
       marks |-> {"cost", "root cause"}],
      [description |-> "Mitigation conflict on resource strategy: increase vs. reduce.",
       marks |-> {"mitigation", "conflict"}],
      [description |-> "Mitigation conflict on schedule approach: acceleration vs. deferral.",
       marks |-> {"schedule", "mitigation", "conflict"}],
      [description |-> "Confidence disparity (0.40) on analysis findings.",
       marks |-> {"confidence", "disparity"}],
      [description |-> "Confidence disparity (0.40) on risk findings.",
       marks |-> {"risk", "confidence", "disparity"}],
      [description |-> "Agents disagree on staffing.",
       marks |-> {}],
      [description |-> "Risk severity conflict on schedule impact.",
       marks |-> {"risk", "severity", "schedule", "impact", "conflict"}],
      [description |-> "Schedule impact of the cost growth.",
       marks |-> {"schedule", "impact", "cost"}],
      [description |-> "SPI trend and risk severity.",
       marks |-> {"spi", "risk", "severity"}],
      [description |-> "Inspired guess.",
       marks |-> {"spi"}],
      [description |-> "Different directions.",
       marks |-> {"direction"}],
      [description |-> "Schedule mismatch.",
       marks |-> {"schedule", "mismatch"}],
      [description |-> "Impact mismatch.",
       marks |-> {"mismatch", "impact"}],
      [description |-> "EAC differs.",
       marks |-> {"eac"}],
      [description |-> "Peace and conflict.",
       marks |-> {"eac", "conflict"}],
      [description |-> "Divergence in confidence.",
       marks |-> {"divergence", "confidence"}],
      [description |-> "Severity unclear.",
       marks |-> {"severity"}],
      [description |-> "Root-cause unclear.",
       marks |-> {}],
      [description |-> "ROOT CAUSE and mitigation.",
       marks |-> {"root cause", "mitigation"}],
      [description |-> "Conflict of confidence.",
       marks |-> {"conflict", "confidence"}],
      [description |-> "Disparity.",
       marks |-> {"disparity"}],
      [description |-> "Risk of conflict.",
       marks |-> {"risk", "conflict"}],
      [description |-> "Schedule risk.",
       marks |-> {"risk", "schedule"}],
      [description |-> "",
       marks |-> {}],
      [description |-> "Severity of the risk: CONFLICT.",
       marks |-> {"risk", "severity", "conflict"}]
    }

InitResolve ==
    /\ hash_seed = 1
    /\ run = NoRun
    /\ agent_outputs = <<>>
    /\ \E case \in ResolutionCases, pair \in ClassifyPairs, sev \in Severities :
           contradictions =
               << Contradiction(1,
                      Finding(pair[1], "analysis", "finding a", DefaultConfidence, 1),
                      Finding(pair[2], "analysis", "finding b", DefaultConfidence, 2),
                      case.description, sev) >>
    /\ detect_log = <<>>
    /\ uuid_count = 1
    /\ exc = ""
    /\ advice = <<>>
    /\ passes = 0
    /\ calls = <<>>
    /\ pc = "resolve"
    /\ ServicesIdle

\* text = suggest_resolution(contradictions[0])
Resolve ==
    /\ pc = "resolve"
    /\ pc' = "resolved"
    /\ advice' = << [contradiction |-> contradictions[1],
                     text |-> suggest_resolution(contradictions[1])] >>
    /\ UNCHANGED <<run, hash_seed, agent_outputs, contradictions, detect_log, uuid_count,
                   exc, passes, calls>>
    /\ UNCHANGED services

SpecResolve == InitResolve /\ [][Resolve]_vars

\* C7: the text suggest_resolution returned for a contradiction contains the
\* agent name of finding_a and the agent name of finding_b.
C7_NamesInResolution ==
    \A n \in 1..Len(advice) :
        /\ Occurs(advice[n].contradiction.finding_a.agent_name, advice[n].text)
        /\ Occurs(advice[n].contradiction.finding_b.agent_name, advice[n].text)

\* the words each template opens with, in the order the templates are named:
\* EVM reconciliation, risk-matrix re-scoring, critical-path cross-reference,
\* EAC-methodology reconciliation, structured root cause analysis,
\* cost-benefit, evidence sharing, generic reconciliation review
TemplateOpening ==
    << "Resolution: Convene a joint review between ",
       "Resolution: Apply the DoD 5x5 risk matrix consistently.",
       "Resolution: Cross-reference both estimates against the IMS critical path",
       "Resolution: Reconcile EAC methodologies.",
       "Resolution: Conduct a structured root cause analysis",
       "Resolution: Evaluate both proposed corrective actions using a cost-benefit",
       "Resolution: Examine the evidence base underlying each agent's confidence",
       "Resolution: Schedule a reconciliation review between " >>

StartsWith(text, prefix) ==
    Len(text) >= Len(prefix) /\ SubSeq(text, 1, Len(prefix)) = prefix

MarksOf(description) ==
    (CHOOSE case \in ResolutionCases : case.description = description).marks

\* the first condition of the fixed order that the terms satisfy
FirstCondition(marks) ==
    IF marks \cap {"cpi", "spi", "direction"} # {} THEN 1
    ELSE IF {"risk", "severity"} \subseteq marks THEN 2
    ELSE IF "schedule" \in marks /\ marks \cap {"mismatch", "impact"} # {} THEN 3
    ELSE IF marks \cap {"cost", "eac", "divergence"} # {} THEN 4
    ELSE IF "root cause" \in marks THEN 5
    ELSE IF marks \cap {"mitigation", "conflict"} # {} THEN 6
    ELSE IF marks \cap {"confidence", "disparity"} # {} THEN 7
    ELSE 8

\* C8: the text returned for a description is the template of the first
\* condition, in the fixed order, that the lower-cased description meets,
\* and the generic template when it meets none.
C8_TemplateOrder ==
    \A n \in 1..Len(advice) :
        \A t \in 1..Len(TemplateOpening) :
            StartsWith(advice[n].text, TemplateOpening[t])
                <=> t = FirstCondition(MarksOf(advice[n].contradiction.description))

\* a description that meets both the cost condition and the root cause
\* condition got the EAC-methodology text
C8_Witness ==
    \E n \in 1..Len(advice) :
        /\ pc = "resolved"
        /\ {"cost", "root cause"} \subseteq MarksOf(advice[n].contradiction.description)
        /\ StartsWith(advice[n].text, TemplateOpening[4])

(***************************************************************************)
(* workflows/triage.py and WorkbenchOrchestrator.run                       *)
(***************************************************************************)

\* INTENT_PATTERNS in dict order
INTENT_PATTERNS ==
    << [intent |-> "explain_variance",
        keywords |-> {"variance", "cpi", "spi", "cost variance", "schedule variance",
                      "evm", "earned value", "overrun", "underrun",
                      "performance index"}],
       [intent |-> "assess_contract_change",
        keywords |-> {"contract", "mod", "modification", "change order", "amendment",
                      "bilateral", "unilateral", "cdrl", "deliverable"}],
       [intent |-> "supplier_quality_investigation",
        keywords |-> {"quality", "escape", "defect", "nonconformance", "supplier",
                      "dpmo", "rejection", "rework", "scrap", "car"}],
       [intent |-> "risk_assessment",
        keywords |-> {"risk", "threat", "opportunity", "probability", "impact",
                      "mitigation", "contingency", "exposure"}],
       [intent |-> "schedule_analysis",
        keywords |-> {"schedule", "milestone", "slip", "delay", "critical path",
                      "float", "ims", "timeline"}] >>

INTENT_AGENT_MAP(intent) ==
    CASE intent = "explain_variance" ->
            <<"cam_agent", "rca_agent", "risk_agent", "pm_agent">>
      [] intent = "assess_contract_change" ->
            <<"contracts_agent", "cam_agent", "risk_agent", "pm_agent">>
      [] intent = "supplier_quality_investigation" ->
            <<"sq_agent", "rca_agent", "cam_agent", "contracts_agent", "risk_agent",
              "pm_agent">>
      [] intent = "risk_assessment" -> <<"risk_agent", "cam_agent", "pm_agent">>
      [] intent = "schedule_analysis" -> <<"cam_agent", "risk_agent", "pm_agent">>

\* scores[intent] = sum(1 for kw in keywords if kw in trigger_lower)
IntentScore(k, trigger_lower) ==
    Cardinality({ kw \in INTENT_PATTERNS[k].keywords : Occurs(kw, trigger_lower) })

\* max(scores, key=scores.get): the first intent, in dict order, of top score
BestIntent(trigger_lower) ==
    CHOOSE k \in 1..Len(INTENT_PATTERNS) :
        /\ \A j \in 1..Len(INTENT_PATTERNS) :
              IntentScore(j, trigger_lower) <= IntentScore(k, trigger_lower)
        /\ \A j \in 1..(k - 1) :
              IntentScore(j, trigger_lower) < IntentScore(k, trigger_lower)

\* classify_intent(trigger)[0]; the confidence goes to the trace only
classify_intent(trigger_text) ==
    LET trigger_lower == LowerRange(trigger_text, 1, Len(trigger_text))
    IN  IF \A k \in 1..Len(INTENT_PATTERNS) : IntentScore(k, trigger_lower) = 0
        THEN "explain_variance"
        ELSE INTENT_PATTERNS[BestIntent(trigger_lower)].intent

get_required_agents(intent) == INTENT_AGENT_MAP(intent)

\* the requests run() is called with
Triggers ==
    { "Hello",
      "Why did CPI drop?",
      "CPI improving, SPI declining",
      "CPI is improving this month although SPI keeps declining on the wing",
      "Assess contract mod P00027",
      "Supplier quality escape on the wing assembly",
      "Update the risk exposure",
      "Milestone slip of 10 days",
      "EAC is $, why the overrun?" }

TriggerPrefixLen == 50

\* _run_parallel_analysis: one simulated finding for each agent
SimulatedFinding(agent_name, trigger, timestamp) ==
    [ Finding(agent_name, "analysis",
              "Analysis from " \o agent_name \o " for: "
              \o Slice(trigger, 0, TriggerPrefixLen) \o "...",
              FDecimal(BInt(85), 2), timestamp)
      EXCEPT !.evidence_refs = <<"mock_data">> ]

\* [a for a in required_agents if a != "pm_agent"]
ParallelAgents(required_agents) == SelectSeq(required_agents, LAMBDA a : a # "pm_agent")

SimulatedFindings(trigger, agents, created) ==
    [k \in 1..Len(agents) |-> SimulatedFinding(agents[k], trigger, created + k)]

\* what detect makes of the simulated findings of each request, found once
\* with the findings stamped from 1 and the ids drawn from 0
RunDetectTab ==
    [seed \in 1..NSeeds |->
        [t \in Triggers |->
            detect(StoreAll(<<>>, SimulatedFindings(t,
                       ParallelAgents(get_required_agents(classify_intent(t))), 0)),
                   0, seed)]]

InitRun ==
    /\ hash_seed \in 1..NSeeds
    /\ run = NoRun
    /\ agent_outputs = <<>>
    /\ contradictions = <<>>
    /\ detect_log = <<>>
    /\ uuid_count = 0
    /\ exc = ""
    /\ advice = <<>>
    /\ passes = 0
    /\ calls = <<>>
    /\ pc = "idle"
    /\ ServicesIdle

\* run(trigger) up to the end of phase 1: triage, case file, first save
RunTriage(trigger) ==
    /\ pc = "idle"
    /\ run.cycles < MaxCycles
    /\ run' = [run EXCEPT !.trigger = trigger,
                          !.intent = classify_intent(trigger),
                          !.required_agents = get_required_agents(classify_intent(trigger)),
                          !.status = "triaging",
                          !.so_what = "",
                          !.versions = Append(@, "triaging")]
    /\ agent_outputs' = <<>>
    /\ contradictions' = <<>>
    /\ exc' = ""
    /\ calls' = Append(calls, [op |-> "run"])
    /\ pc' = "analysis"
    /\ UNCHANGED <<hash_seed, detect_log, uuid_count, advice, passes>>
    /\ UNCHANGED services

\* phase 2: the outputs of the parallel agents are stored and saved
RunAnalysis ==
    /\ pc = "analysis"
    /\ LET agents == ParallelAgents(run.required_agents)
       IN  /\ agent_outputs' =
                 StoreAll(<<>>, SimulatedFindings(run.trigger, agents, run.created))
           /\ run' = [run EXCEPT !.status = "analyzing",
                                 !.created = @ + Len(agents),
                                 !.versions = @ \o <<"analyzing", "analyzing">>]
    /\ pc' = "refinement"
    /\ UNCHANGED <<hash_seed, contradictions, detect_log, uuid_count, exc, advice,
                   passes, calls>>
    /\ UNCHANGED services

\* the ids and timestamps of a tabled result moved to this call's
ReStamp(list, drawn, created) ==
    [k \in 1..Len(list) |->
        [list[k] EXCEPT !.id = @ + drawn,
                        !.finding_a.timestamp = @ + created,
                        !.finding_b.timestamp = @ + created]]

\* phase 3 up to the return of detect; an exception leaves run()
RunDetectGot(r, created) ==
    /\ calls' = Append(calls, [op |-> "detect"])
    /\ uuid_count' = uuid_count + r.created
    /\ IF r.raised
       THEN /\ exc' = "ValueError"
            /\ pc' = "idle"
            /\ run' = [run EXCEPT !.status = "refining",
                                  !.versions = Append(@, "refining"),
                                  !.cycles = @ + 1]
            /\ UNCHANGED contradictions
       ELSE /\ contradictions' = ReStamp(r.result, uuid_count, created)
            /\ pc' = "resolution"
            /\ run' = [run EXCEPT !.status = "refining",
                                  !.versions = Append(@, "refining")]
            /\ UNCHANGED exc

RunDetect ==
    /\ pc = "refinement"
    /\ RunDetectGot(RunDetectTab[hash_seed][run.trigger],
                    run.created - Len(AllFindings(agent_outputs)))
    /\ UNCHANGED <<hash_seed, agent_outputs, detect_log, advice, passes>>
    /\ UNCHANGED services

\* one turn of  for c in contradictions: c.resolution = suggest_resolution(c)
RunSuggestGot(k, text) ==
    /\ contradictions' = [contradictions EXCEPT ![k].resolution = << text >>]
    /\ advice' = << [contradiction |-> contradictions[k], text |-> text] >>

RunSuggest ==
    /\ pc = "resolution"
    /\ \E k \in 1..Len(contradictions) :
          /\ contradictions[k].resolution = None
          /\ \A j \in 1..(k - 1) : contradictions[j].resolution # None
          /\ RunSuggestGot(k, suggest_resolution(contradictions[k]))
    /\ calls' = Append(calls, [op |-> "suggest_resolution"])
    /\ UNCHANGED <<run, hash_seed, agent_outputs, detect_log, uuid_count, exc,
                   passes, pc>>
    /\ UNCHANGED services

\* the end of phase 3, phase 4 and the return of run()
RunSynthesis ==
    /\ pc = "resolution"
    /\ \A k \in 1..Len(contradictions) : contradictions[k].resolution # None
    /\ run' = [run EXCEPT
                  !.status = "complete",
                  !.so_what = "This situation requires management attention. "
                              \o ToString(Len(contradictions))
                              \o " areas require clarification.",
                  !.versions = @ \o <<"refining", "synthesizing", "complete">>,
                  !.cycles = @ + 1]
    /\ calls' = Append(calls, [op |-> "synthesis"])
    /\ pc' = "idle"
    /\ UNCHANGED <<hash_seed, agent_outputs, contradictions, detect_log, uuid_count,
                   exc, advice, passes>>
    /\ UNCHANGED services

NextRun ==
    \/ \E trigger \in Triggers : RunTriage(trigger)
    \/ RunAnalysis
    \/ RunDetect
    \/ RunSuggest
    \/ RunSynthesis

SpecRun == InitRun /\ [][NextRun]_vars

\* the places of the log that an operation was recorded at
CallsOf(op) == { n \in 1..Len(calls) : calls[n].op = op }

\* the place at which the cycle that place n belongs to began
CycleStart(n) == CHOOSE m \in CallsOf("run") : m <= n /\ \A j \in CallsOf("run") : j <= n => j <= m

\* C10: in every cycle that reaches synthesis, detect was invoked, then
\* classify_severity exactly once, and only then suggest_resolution, once
\* for each contradiction, all before the synthesis phase started.
C10_CycleOrder ==
    \A s \in CallsOf("synthesis") :
        LET cycle == { n \in CycleStart(s)..s : TRUE }
            at(op) == cycle \cap CallsOf(op)
        IN  /\ Cardinality(at("detect")) = 1
            /\ Cardinality(at("classify_severity")) = 1
            /\ \A d \in at("detect"), c \in at("classify_severity") : d < c
            /\ \A c \in at("classify_severity"), r \in at("suggest_resolution") : c < r
            /\ s = Len(calls) =>
                  Cardinality(at("suggest_resolution")) = Len(contradictions)

(***************************************************************************)
(* classify_severity called again, and on reordered lists                  *)
(***************************************************************************)

\* the places n such that call n + 1 was made on what call n returned
Recalls ==
    { n \in ClassifyCalls : n + 1 \in ClassifyCalls /\ calls[n + 1].arg = calls[n].result }

\* C11: classify_severity is not idempotent: a second call on the list the
\* first call returned changes the severity of exactly the contradictions
\* that the first call left at medium in an agent pair with at least 3
\* contradictions, and it raises them to high.
C11_NotIdempotent ==
    \A n \in Recalls :
        \A k \in 1..Len(calls[n].result) :
            LET once == calls[n].result[k].severity
                twice == calls[n + 1].result[k].severity
            IN  IF BetweenSame(calls[n].result, k) >= 3 /\ once = "medium"
                THEN twice = "high"
                ELSE twice = once

\* a contradiction that went from low to medium in the first call and from
\* medium to high in the second
C11_Witness ==
    \E n \in Recalls :
        \E k \in 1..Len(calls[n].arg) :
            /\ calls[n].arg[k].severity = "low"
            /\ calls[n].result[k].severity = "medium"
            /\ calls[n + 1].result[k].severity = "high"

\* the reorderings of a list of n elements
Orderings(n) == { p \in [1..n -> 1..n] : \A i, j \in 1..n : p[i] = p[j] => i = j }

Reordered(list, p) == [k \in 1..Len(list) |-> list[p[k]]]

\* the orderings of the list under which classify_severity gives some
\* contradiction a severity other than the one it got in the call
DependsOnOrder(arg, result) ==
    { p \in Orderings(Len(arg)) :
        classify_severity(Reordered(arg, p)) # Reordered(result, p) }

\* C12 as stated: some call has an ordering of its list under which some
\* contradiction ends with a different severity.
C12_OrderDependent ==
    passes = MaxPasses => \E n \in ClassifyCalls : DependsOnOrder(calls[n].arg, calls[n].result) # {}

\* C12 as the code has it: under every ordering of the list each
\* contradiction ends with the severity it got in the call.
C12_OrderIndependent ==
    \A n \in ClassifyCalls : DependsOnOrder(calls[n].arg, calls[n].result) = {}

\* a call on three contradictions of one agent pair that came in as low,
\* medium and high, in some order, and left as medium, high and high
C12_Witness ==
    \E n \in ClassifyCalls :
        /\ Len(calls[n].arg) = 3
        /\ \A k \in 1..3 : BetweenSame(calls[n].arg, k) = 3
        /\ calls[n].arg[1].severity = "medium"
        /\ calls[n].arg[2].severity = "low"
        /\ calls[n].arg[3].severity = "high"
        /\ calls[n].result[1].severity = "high"
        /\ calls[n].result[2].severity = "medium"
        /\ calls[n].result[3].severity = "high"

(***************************************************************************)
(* Rule 2 applied to the annotated risk statements                         *)
(***************************************************************************)

InitRisk == RuleInit(RiskCases, "rule_2")

RuleRisk ==
    RuleStep("rule_2", _rule_risk_severity_conflict(AllFindings(agent_outputs)))

SpecRisk == InitRisk /\ [][RuleRisk]_vars

\* critical > high > medium > low
TierRank(label) ==
    CASE label = "critical" -> 4 [] label = "high" -> 3
      [] label = "medium" -> 2 [] label = "low" -> 1

\* the returned contradictions about the i-th and j-th finding name the
\* labels la and lb
RatedAs(i, j, la, lb) ==
    \A k \in 1..Len(contradictions) :
        (contradictions[k].finding_a = Given[i] /\ contradictions[k].finding_b = Given[j])
            => contradictions[k].description =
                   "Risk severity conflict: '" \o Given[i].agent_name \o "' rates as "
                   \o la \o " while '" \o Given[j].agent_name \o "' rates as " \o lb \o "."

RuleInitOn(statements, seeds, at) ==
    /\ hash_seed \in seeds
    /\ run = NoRun
    /\ \E len \in 0..MaxRuleFindings :
           \E fs \in FindingListsOfLen(Agents, statements, len) :
               agent_outputs = StoreAll(<<>>, fs)
    /\ contradictions = <<>>
    /\ detect_log = <<>>
    /\ uuid_count = 0
    /\ exc = ""
    /\ advice = <<>>
    /\ passes = 0
    /\ calls = <<>>
    /\ pc = at
    /\ ServicesIdle

InitCause == RuleInitOn(CaseStatements(CauseCases), 1..NSeeds, "rule_5")

RuleCause ==
    RuleStep("rule_5", _rule_root_cause_disagreement(AllFindings(agent_outputs), hash_seed))

SpecCause == InitCause /\ [][RuleCause]_vars

\* some causal phrase is in both texts and is followed by different text
FollowedDifferently(a, b) ==
    \E p \in a.follows : \E q \in b.follows : p[1] = q[1] /\ p[2] # q[2]

\* C14: after rule 5, under every scan order of the causal phrases, a pair
\* of findings of different agents that both hold a causal phrase has
\* exactly one contradiction, of severity medium, when the findings share
\* at least 2 words of the domain vocabulary and some causal phrase of both
\* is followed by different trimmed 80-character text; every other pair has
\* none, and no pair has more than one.
C14_RootCauseDisagreement ==
    pc = "returned" =>
        /\ OnlyLoopPairs
        /\ \A pair \in LoopPairs :
               LET a == CaseOf(CauseCases, Given[pair[1]])
                   b == CaseOf(CauseCases, Given[pair[2]])
               IN  IF /\ Given[pair[1]].agent_name # Given[pair[2]].agent_name
                      /\ a.cause /\ b.cause
                      /\ Cardinality(a.topics \cap b.topics) >= 2
                      /\ FollowedDifferently(a, b)
                   THEN /\ Emitted(pair[1], pair[2]) = 1
                        /\ EmittedAs(pair[1], pair[2], "medium")
                   ELSE Emitted(pair[1], pair[2]) = 0

\* rule 5 has reported once a pair that shares two causal phrases, the one
\* scanned first followed by the same text in both and the other not
C14_Witness ==
    /\ pc = "returned"
    /\ CauseTermOrder(hash_seed)[1] = "root cause"
    /\ \E pair \in LoopPairs :
           /\ Given[pair[1]].content
                  = "cost and schedule slip due to weather, root cause supplier rework"
           /\ Given[pair[2]].content
                  = "cost and schedule slip due to strikes, root cause supplier rework"
           /\ Emitted(pair[1], pair[2]) = 1

(***************************************************************************)
(* Rule 6 applied to the annotated mitigation statements                   *)
(***************************************************************************)

\* every text as a recommendation, and some as the other finding types
MitigationStatements ==
    { Statement("recommendation", c.content, DefaultConfidence) : c \in MitigationCases }
    \cup { Statement("action", "defer delivery and stop overtime", DefaultConfidence),
           Statement("action", "delay, sole-source, cut spending, keep baseline, reduce risk",
                     DefaultConfidence),
           Statement("observation", "defer delivery and stop overtime", DefaultConfidence),
           Statement("analysis", "accelerate delivery and add overtime", DefaultConfidence) }

InitMitigation == RuleInitOn(MitigationStatements, {1}, "rule_6")

RuleMitigation ==
    RuleStep("rule_6", _rule_mitigation_conflict(AllFindings(agent_outputs)))

SpecMitigation == InitMitigation /\ [][RuleMitigation]_vars

\* how many of the returned contradictions are about the i-th and j-th
\* finding and the k-th pair of opposite keyword sets
EmittedOn(i, j, k) ==
    Cardinality({ n \in 1..Len(contradictions) :
                    /\ contradictions[n].finding_a = Given[i]
                    /\ contradictions[n].finding_b = Given[j]
                    /\ contradictions[n].description =
                           "Mitigation conflict on " \o conflict_pairs[k].conflict_desc
                           \o ": '" \o Given[i].agent_name \o "' vs '"
                           \o Given[j].agent_name \o "'." })

\* the opposite-set pairs on which the two statements stand on opposite sides
Opposed(a, b) == (a.x \cap b.y) \cup (a.y \cap b.x)

\* C15: after rule 6, every contradiction is between two findings of type
\* recommendation or action; a pair of such findings of different agents
\* has, for each of the five opposite-set pairs, one contradiction of
\* severity high when one finding matches one set and the other finding
\* the opposite set, and none otherwise; every other pair has none.
C15_MitigationConflict ==
    pc = "returned" =>
        /\ OnlyLoopPairs
        /\ \A n \in 1..Len(contradictions) :
               /\ contradictions[n].finding_a.finding_type \in {"recommendation", "action"}
               /\ contradictions[n].finding_b.finding_type \in {"recommendation", "action"}
        /\ \A pair \in LoopPairs :
               LET a == CaseOf(MitigationCases, Given[pair[1]])
                   b == CaseOf(MitigationCases, Given[pair[2]])
               IN  IF /\ Given[pair[1]].agent_name # Given[pair[2]].agent_name
                      /\ Given[pair[1]].finding_type \in {"recommendation", "action"}
                      /\ Given[pair[2]].finding_type \in {"recommendation", "action"}
                   THEN /\ \A k \in 1..5 :
                              EmittedOn(pair[1], pair[2], k)
                                  = IF k \in Opposed(a, b) THEN 1 ELSE 0
                        /\ Emitted(pair[1], pair[2]) = Cardinality(Opposed(a, b))
                        /\ EmittedAs(pair[1], pair[2], "high")
                   ELSE Emitted(pair[1], pair[2]) = 0

\* rule 6 has reported a recommendation against an action five times, once
\* for each pair of opposite keyword sets
C15_Witness ==
    /\ pc = "returned"
    /\ \E pair \in LoopPairs :
           /\ Given[pair[1]].finding_type = "recommendation"
           /\ Given[pair[2]].finding_type = "action"
           /\ \A k \in 1..5 : EmittedOn(pair[1], pair[2], k) = 1
           /\ Emitted(pair[1], pair[2]) = 5

(***************************************************************************)
(* Rule 7 applied to the annotated confidence statements                   *)
(***************************************************************************)

ConfidenceStatements ==
    { Statement(c.finding_type, c.content, c.confidence) : c \in ConfidenceCases }

InitConfidence == RuleInitOn(ConfidenceStatements, {1}, "rule_7")

RuleConfidence ==
    RuleStep("rule_7", _rule_confidence_disparity(AllFindings(agent_outputs)))

SpecConfidence == InitConfidence /\ [][RuleConfidence]_vars

\* the case a finding states
ConfidenceCaseOf(f) ==
    CHOOSE c \in ConfidenceCases :
        /\ c.finding_type = f.finding_type
        /\ c.content = f.content
        /\ c.confidence = f.confidence

\* the gap of two cases in hundredths
GapOf(a, b) ==
    IF a.hundredths < b.hundredths THEN b.hundredths - a.hundredths
    ELSE a.hundredths - b.hundredths

\* C16: after rule 7, a pair of findings of different agents has exactly
\* one contradiction when the findings have the same finding_type, their
\* confidences differ by more than 0.3 and they share at least 4 words that
\* are not trivial words; it is medium when the gap is at most 0.5 and high
\* when it is more. Every other pair, in particular one with a gap of at
\* most 0.3, has none.
C16_ConfidenceDisparity ==
    pc = "returned" =>
        /\ OnlyLoopPairs
        /\ \A pair \in LoopPairs :
               LET a == ConfidenceCaseOf(Given[pair[1]])
                   b == ConfidenceCaseOf(Given[pair[2]])
               IN  IF /\ Given[pair[1]].agent_name # Given[pair[2]].agent_name
                      /\ a.finding_type = b.finding_type
                      /\ GapOf(a, b) > 30
                      /\ Cardinality(a.words \cap b.words) >= 4
                   THEN /\ Emitted(pair[1], pair[2]) = 1
                        /\ EmittedAs(pair[1], pair[2],
                                     IF GapOf(a, b) <= 50 THEN "medium" ELSE "high")
                   ELSE Emitted(pair[1], pair[2]) = 0

(***************************************************************************)
(* What detect returns, rule by rule                                       *)
(***************************************************************************)

\* a returned list without the ids detect's Contradiction objects drew
WithoutIds(list) == [k \in 1..Len(list) |-> [list[k] EXCEPT !.id = 0]]

\* the seven rules applied one after the other to the same findings
EachRuleOn(fs, seed) ==
    _rule_cpi_spi_direction(fs)
    \o _rule_risk_severity_conflict(fs)
    \o _rule_schedule_impact_mismatch(fs)
    \o _rule_cost_estimate_divergence(fs)
    \o _rule_root_cause_disagreement(fs, seed)
    \o _rule_mitigation_conflict(fs)
    \o _rule_confidence_disparity(fs)

\* C17: every list detect returned is the concatenation, in rule order 1 to
\* 7, of what each rule makes of the flattened findings of all agent
\* outputs, nothing dropped where rules report the same finding pair, and
\* it is empty when there are fewer than 2 findings.
C17_RuleConcatenation ==
    \A e \in 1..Len(detect_log) :
        /\ WithoutIds(detect_log[e].result)
               = EachRuleOn(AllFindings(detect_log[e].input), hash_seed)
        /\ Len(AllFindings(detect_log[e].input)) < 2 => detect_log[e].result = <<>>

\* detect has returned two contradictions about one finding pair
C17_Witness ==
    /\ \E e \in 1..Len(detect_log) :
           \E j, k \in 1..Len(detect_log[e].result) :
               /\ j < k
               /\ detect_log[e].result[j].finding_a = detect_log[e].result[k].finding_a
               /\ detect_log[e].result[j].finding_b = detect_log[e].result[k].finding_b
               /\ detect_log[e].result[j].description # detect_log[e].result[k].description

(***************************************************************************)
(* What classify_severity leaves as it was                                 *)
(***************************************************************************)

\* C18: classify_severity returns the list it was given, which the caller
\* then holds: it has the same length and the same contradictions in the
\* same order, each with its id, finding_a, finding_b, description,
\* resolution and resolved unchanged, and an empty list comes back empty.
C18_SameList ==
    /\ \A n \in ClassifyCalls :
           /\ Len(calls[n].result) = Len(calls[n].arg)
           /\ \A k \in 1..Len(calls[n].arg) :
                  calls[n].result[k]
                      = [calls[n].arg[k] EXCEPT !.severity = calls[n].result[k].severity]
           /\ calls[n].arg = <<>> => calls[n].result = <<>>
    /\ ClassifyCalls # {} =>
           \E n \in ClassifyCalls :
               n = Len(calls) /\ calls[n].result = contradictions

\* a call on three contradictions that differ in more than their severity
\* raised the last two of them, one of which the caller had settled, and
\* left the first as it was
C18_Witness ==
    \E n \in ClassifyCalls :
        /\ Len(calls[n].arg) = 3
        /\ \A j, k \in 1..3 :
               j # k => [calls[n].arg[j] EXCEPT !.severity = "low"]
                           # [calls[n].arg[k] EXCEPT !.severity = "low"]
        /\ calls[n].result[3].severity # calls[n].arg[3].severity
        /\ calls[n].result[2].severity # calls[n].arg[2].severity
        /\ calls[n].result[2].resolved
        /\ calls[n].result[1] = calls[n].arg[1]

(***************************************************************************)
(* What the engine leaves of its input                                     *)
(***************************************************************************)

\* C19: no step of detect, classify_severity or suggest_resolution changes
\* agent_outputs: every finding and every list of findings stay as they
\* were before the call.
C19_FindingsUntouched == [][agent_outputs' = agent_outputs]_vars

\* detect, classify_severity and suggest_resolution have all been called,
\* and classify_severity raised a contradiction between stored findings
C19_Witness ==
    /\ Len(detect_log) > 0
    /\ passes > 0
    /\ advice # <<>>
    /\ contradictions # detect_log[Len(detect_log)].result
    /\ \E k \in 1..Len(contradictions) :
           \E i \in 1..Len(AllFindings(agent_outputs)) :
               contradictions[k].finding_a = AllFindings(agent_outputs)[i]

(***************************************************************************)
(* The engine called directly, and called by the orchestrator              *)
(***************************************************************************)

InitEither == Init \/ InitRun

NextEither == Next \/ NextRun

SpecEither == InitEither /\ [][NextEither]_vars

\* no contradiction detect returned, and none the caller holds, is resolved;
\* what detect returned, and what a caller of the engine holds, has no
\* resolution
Unresolved ==
    /\ \A e \in 1..Len(detect_log) :
           \A k \in 1..Len(detect_log[e].result) :
               /\ ~detect_log[e].result[k].resolved
               /\ detect_log[e].result[k].resolution = None
    /\ \A k \in 1..Len(contradictions) : ~contradictions[k].resolved
    /\ pc = "api" => \A k \in 1..Len(contradictions) : contradictions[k].resolution = None

\* a step of the refinement phase after detect has returned changes nothing
\* of a contradiction but its resolution
OnlyResolutionFilled ==
    pc = "resolution" =>
        /\ Len(contradictions') = Len(contradictions)
        /\ \A k \in 1..Len(contradictions) :
               contradictions'[k]
                   = [contradictions[k] EXCEPT !.resolution = contradictions'[k].resolution]

\* C20: every contradiction detect returns has resolved = false and no
\* resolution; resolved stays false whatever classify_severity and
\* suggest_resolution calls follow, and through the refinement phase of
\* the orchestrator, which changes nothing but resolution.
C20_NeverResolved == []Unresolved /\ [][OnlyResolutionFilled]_vars

\* a run has ended whose refinement phase filled the resolution of every
\* contradiction detect returned
C20_Witness ==
    /\ run.status = "complete"
    /\ Len(contradictions) > 0
    /\ \A k \in 1..Len(contradictions) :
           contradictions[k].resolution # None /\ ~contradictions[k].resolved

(***************************************************************************)
(* detect on text that yields no usable amount                             *)
(***************************************************************************)

\* the last operation the log records is op
LastCall(op) == Len(calls) > 0 /\ calls[Len(calls)].op = op

\* C21: detect raises no exception whatever the content of the findings:
\* text with a '$' followed by malformed digits or commas makes the cost
\* rule produce nothing for the pair, and detect still returns a list.
C21_DetectReturns == LastCall("detect") => exc = ""

(***************************************************************************)
(* suggest_resolution called again and again                               *)
(***************************************************************************)

MaxResolveCalls == 3

\* the descriptions of the contradictions the caller holds
RepeatCases == { c \in ResolutionCases : "severity" \in c.marks }

\* the caller holds two contradictions; they may agree in description and
\* agent names while they differ in everything else, and the second one
\* has been settled
InitRepeat ==
    /\ hash_seed = 1
    /\ run = NoRun
    /\ agent_outputs = <<>>
    /\ \E case \in RepeatCases \X RepeatCases, pair \in ClassifyPairs \X ClassifyPairs,
          sev \in Severities \X Severities :
           contradictions =
               << Contradiction(1,
                      Finding(pair[1][1], "analysis", "finding a", DefaultConfidence, 1),
                      Finding(pair[1][2], "analysis", "finding b", DefaultConfidence, 2),
                      case[1].description, sev[1]),
                  Settled(Contradiction(2,
                      Finding(pair[2][1], "recommendation", "finding c",
                              FDecimal(BInt(9), 1), 3),
                      Finding(pair[2][2], "action", "finding d", DefaultConfidence, 4),
                      case[2].description, sev[2])) >>
    /\ detect_log = <<>>
    /\ uuid_count = 2
    /\ exc = ""
    /\ advice = <<>>
    /\ passes = 0
    /\ calls = <<>>
    /\ pc = "repeat"
    /\ ServicesIdle

\* what the caller holds once suggest_resolution(contradictions[k]) returned
ResolveAgainGot(k, text) ==
    /\ calls' = Append(calls, [op |-> "suggest_resolution",
                               arg |-> contradictions[k], text |-> text])
    /\ advice' = << [contradiction |-> contradictions[k], text |-> text] >>

\* text = detector.suggest_resolution(contradictions[k])
ResolveAgain(k) ==
    /\ pc = "repeat"
    /\ Len(calls) < MaxResolveCalls
    /\ k \in 1..Len(contradictions)
    /\ ResolveAgainGot(k, suggest_resolution(contradictions[k]))
    /\ UNCHANGED <<run, hash_seed, agent_outputs, contradictions, detect_log, uuid_count,
                   exc, passes, pc>>
    /\ UNCHANGED services

NextRepeat == \E k \in 1..2 : ResolveAgain(k)

SpecRepeat == InitRepeat /\ [][NextRepeat]_vars

\* what suggest_resolution reads of its argument
ReadOf(c) == << c.description, c.finding_a.agent_name, c.finding_b.agent_name >>

\* calls on contradictions of equal description and agent names returned
\* equal text
SameTextReturned ==
    \A m, n \in 1..Len(calls) :
        ReadOf(calls[m].arg) = ReadOf(calls[n].arg) => calls[m].text = calls[n].text

\* a call leaves the contradictions the caller holds as they were
ArgumentUntouched == contradictions' = contradictions

\* C22: suggest_resolution is pure and stateless: two calls on the same
\* Contradiction return identical text, the text depends only on the
\* description and the two agent names, and a call changes no field of the
\* contradiction (neither resolution nor resolved).
C22_Pure == []SameTextReturned /\ [][ArgumentUntouched]_vars

\* the first contradiction was passed twice, then the second one, which has
\* the same description and agent names but another id, severity, findings
\* and resolution; neither lost or gained a resolution
C22_Witness ==
    /\ Len(calls) = 3
    /\ calls[1].arg = contradictions[1]
    /\ calls[2].arg = contradictions[1]
    /\ calls[3].arg = contradictions[2]
    /\ ReadOf(contradictions[1]) = ReadOf(contradictions[2])
    /\ contradictions[1].severity # contradictions[2].severity
    /\ contradictions[1].resolution = None /\ ~contradictions[1].resolved
    /\ contradictions[2].resolution # None /\ contradictions[2].resolved
    /\ calls[1].text = calls[3].text

(***************************************************************************)
(* ContradictionResolver.should_continue and the loop around it            *)
(***************************************************************************)

MaxIterations == 4

MaxRemaining == 2

MaxShouldCalls == 5

\* resolver = ContradictionResolver(max_iterations)
InitShould ==
    /\ EngineIdle
    /\ \E max_iterations \in 0..MaxIterations :
           resolver = ContradictionResolver(max_iterations)
    /\ should_log = <<>>
    /\ loop_pc = "while"
    /\ ManagerIdle
    /\ CollectorIdle

\* what the caller holds once should_continue(remaining) has returned r
ShouldGot(remaining, r) ==
    /\ resolver' = r.self
    /\ should_log' = Append(should_log,
                            [remaining |-> remaining,
                             before |-> resolver.current_iteration,
                             after |-> r.self.current_iteration,
                             result |-> r.result])

\* while resolver.should_continue(remaining): ...; the body of the loop
\* settles how many contradictions remain at the next test
WhileTest(remaining) ==
    /\ loop_pc = "while"
    /\ ShouldGot(remaining, should_continue(resolver, remaining))
    /\ loop_pc' = IF should_log'[Len(should_log')].result THEN "while" ELSE "done"
    /\ UNCHANGED <<engine, managing, collecting>>

\* resolver.should_continue(remaining) called after the loop has ended
LaterCall(remaining) ==
    /\ loop_pc = "done"
    /\ Len(should_log) < MaxShouldCalls
    /\ ShouldGot(remaining, should_continue(resolver, remaining))
    /\ UNCHANGED <<engine, managing, collecting, loop_pc>>

LoopStep == \E remaining \in 0..MaxRemaining : WhileTest(remaining)

NextShould ==
    \/ LoopStep
    \/ \E remaining \in 0..MaxRemaining : LaterCall(remaining)

SpecShould == InitShould /\ [][NextShould]_vars

\* the loop is sequential code: its next test is always made
SpecShouldFair == SpecShould /\ WF_vars(LoopStep)

\* the calls that returned True
Continued == { n \in 1..Len(should_log) : should_log[n].result }

\* every call counted one iteration and answered as stated
ShouldLogRight ==
    /\ resolver.current_iteration = Len(should_log)
    /\ \A n \in 1..Len(should_log) :
           /\ should_log[n].after = should_log[n].before + 1
           /\ should_log[n].result
                  <=> (should_log[n].remaining # 0
                       /\ should_log[n].after < resolver.max_iterations)
           /\ should_log[n].remaining = 0 => ~should_log[n].result

\* the number of max_iterations - 1 or 0 when that is negative
AtMostTimes == IF resolver.max_iterations >= 1 THEN resolver.max_iterations - 1 ELSE 0

\* C23: should_continue increments current_iteration by exactly 1 on every
\* call, also when it returns False; it returns True iff
\* remaining_contradictions is not 0 and the incremented current_iteration
\* is below max_iterations. A loop that repeats while it returns True
\* always ends, and it returns True at most max_iterations - 1 times (no
\* time when max_iterations is 0), never when 0 contradictions remain.
C23_LoopEnds ==
    /\ [](ShouldLogRight /\ Cardinality(Continued) <= AtMostTimes)
    /\ <>(loop_pc = "done")

\* C23 as stated: should_continue returns True at most max_iterations - 1
\* times, whatever max_iterations is
C23_AtMostOneLess ==
    loop_pc = "done" => Cardinality(Continued) <= resolver.max_iterations - 1

\* ContradictionResolver(3): should_continue(2) and should_continue(1) were
\* True, the third call was False and ended the loop, and a call made after
\* that counted a fourth iteration
C23_Witness ==
    /\ resolver.max_iterations = 3
    /\ loop_pc = "done"
    /\ Len(should_log) = 4
    /\ should_log[1] = [remaining |-> 2, before |-> 0, after |-> 1, result |-> TRUE]
    /\ should_log[2] = [remaining |-> 1, before |-> 1, after |-> 2, result |-> TRUE]
    /\ should_log[3] = [remaining |-> 1, before |-> 2, after |-> 3, result |-> FALSE]
    /\ ~should_log[4].result
    /\ resolver.current_iteration = 4

(***************************************************************************)
(* StateManager: the history of snapshots                                  *)
(***************************************************************************)

MaxVersions == 3

MaxObjects == 10

\* the values the caller works with
ManagerStatuses == {"triaging", "analyzing"}

ManagerAgents == {"cam_agent"}

ManagerOutputs == {"output of cam_agent"}

\* the objects one deep copy allocates
CopySize == 2

InitManager ==
    /\ EngineIdle
    /\ ResolverIdle
    /\ ManagerIdle
    /\ CollectorIdle

\* what the caller holds once a call on the manager has ended as r
ManagerGot(op, arg, r) ==
    /\ manager' = r.manager
    /\ heap' = r.heap
    /\ held' = IF r.raised \/ op = "save_state" THEN held ELSE held \cup {r.result}
    /\ called' = [op |-> op, arg |-> arg, raised |-> r.raised, result |-> r.result]
    /\ UNCHANGED <<engine, resolving, collecting>>

\* state = WorkbenchState(case_file=case_file, status=status)
NewState(status) ==
    /\ Len(heap) + CopySize <= MaxObjects
    /\ ManagerGot("WorkbenchState", 0,
                  ManagerReturn(manager, Construct(heap, status)))

\* manager.save_state(state)
SaveState(state) ==
    /\ Len(manager._history) < MaxVersions
    /\ Len(heap) + CopySize <= MaxObjects
    /\ ManagerGot("save_state", state, save_state(manager, heap, state))

\* state = manager.get_state(version)
GetState(version) ==
    /\ Len(heap) + CopySize <= MaxObjects
    /\ ManagerGot("get_state", version, get_state(manager, heap, version))

\* state = manager.rollback(version)
Rollback(version) ==
    /\ Len(manager._history) < MaxVersions
    /\ Len(heap) + 3 * CopySize <= MaxObjects
    /\ ManagerGot("rollback", version, rollback(manager, heap, version))

\* state = manager.update_status(state, new_status)
UpdateStatus(state, new_status) ==
    /\ Len(heap) + CopySize <= MaxObjects
    /\ ManagerGot("update_status", state, update_status(manager, heap, state, new_status))

\* state = manager.update_agent_output(state, agent_name, output)
UpdateAgentOutput(state, agent_name, output) ==
    /\ Len(heap) + CopySize <= MaxObjects
    /\ ManagerGot("update_agent_output", state,
                  update_agent_output(manager, heap, state, agent_name, output))

\* what is left once the caller has written into a state it holds
Written(op, state, h) ==
    /\ heap' = h
    /\ called' = [op |-> op, arg |-> state, raised |-> FALSE, result |-> 0]
    /\ UNCHANGED <<engine, resolving, collecting, manager, held>>

\* state.status = status
SetStatus(state, status) ==
    Written("status", state, [heap EXCEPT ![state].status = status])

\* state.agent_outputs[agent_name] = output
SetOutput(state, agent_name, output) ==
    Written("agent_outputs", state,
            [heap EXCEPT ![heap[state].agent_outputs].items = DictSet(@, agent_name, output)])

\* the version numbers a caller asks for: -1, no version, and 1 onwards
AskedVersions == -1..(MaxVersions + 1)

NextManager ==
    \/ \E status \in ManagerStatuses : NewState(status)
    \/ \E state \in held : SaveState(state)
    \/ \E version \in AskedVersions : GetState(version)
    \/ \E version \in AskedVersions : Rollback(version)
    \/ \E state \in held, status \in ManagerStatuses : UpdateStatus(state, status)
    \/ \E state \in held, agent_name \in ManagerAgents, output \in ManagerOutputs :
           UpdateAgentOutput(state, agent_name, output)
    \/ \E state \in held, status \in ManagerStatuses : SetStatus(state, status)
    \/ \E state \in held, agent_name \in ManagerAgents, output \in ManagerOutputs :
           SetOutput(state, agent_name, output)

SpecManager == InitManager /\ [][NextManager]_vars

\* the versions of the history are 1..n in order, n being version_count and
\* latest_version (None when the history is empty)
VersionsConsecutive ==
    /\ VersionsOf(manager) = [k \in 1..version_count(manager) |-> k]
    /\ latest_version(manager)
           = IF version_count(manager) = 0 THEN None ELSE << version_count(manager) >>

\* the step was a call of op that returned
CallReturned(op) == called'.op = op /\ ~called'.raised /\ called' # called

\* the step was a call of op that raised
CallRaised(op) == called'.op = op /\ called'.raised /\ called' # called

\* the history grew by one entry at its end and is otherwise as it was
OneAppended ==
    /\ Len(manager'._history) = Len(manager._history) + 1
    /\ SubSeq(manager'._history, 1, Len(manager._history)) = manager._history

\* the new last snapshot holds what snapshot number k held
LastEquals(k) ==
    DeepValue(heap', manager'._history[Len(manager'._history)].snapshot)
        = DeepValue(heap, manager._history[k].snapshot)

\* the version is one of the history
Known(version) == version \in 1..Len(manager._history)

\* what a step does to the history, -1 standing for the latest version
HistoryStep ==
    /\ CallReturned("save_state") =>
           /\ OneAppended
           /\ DeepValue(heap', manager'._history[Len(manager'._history)].snapshot)
                  = DeepValue(heap, called'.arg)
    /\ CallReturned("rollback") =>
           /\ OneAppended
           /\ manager._history # <<>>
           /\ Known(called'.arg) \/ called'.arg = -1
           /\ LastEquals(IF called'.arg = -1 THEN Len(manager._history) ELSE called'.arg)
    /\ ~(CallReturned("save_state") \/ CallReturned("rollback")) =>
           manager'._history = manager._history
    /\ \A op \in {"get_state", "rollback"} :
           /\ CallRaised(op) =>
                  /\ manager._history = <<>> \/ ~(Known(called'.arg) \/ called'.arg = -1)
                  /\ manager' = manager
           /\ CallReturned(op) => manager._history # <<>>

SnapshotsKept ==
    \A k \in 1..Len(manager._history) :
        /\ k <= Len(manager'._history)
        /\ DeepValue(heap', manager'._history[k].snapshot)
               = DeepValue(heap, manager._history[k].snapshot)

\* get_state and rollback return a state that is no snapshot and holds
\* what the snapshot asked for holds
CopyReturned ==
    \A op \in {"get_state", "rollback"} :
        CallReturned(op) =>
            /\ \A k \in 1..Len(manager'._history) :
                   /\ manager'._history[k].snapshot # called'.result
                   /\ heap'[manager'._history[k].snapshot].agent_outputs
                          # heap'[called'.result].agent_outputs
            /\ DeepValue(heap', called'.result)
                   = DeepValue(heap, manager._history[IF called'.arg = -1
                                                      THEN Len(manager._history)
                                                      ELSE called'.arg].snapshot)

\* update_status and update_agent_output return a state of their own and
\* leave the state they were given, and the manager, as they were
UpdatesCopy ==
    \A op \in {"update_status", "update_agent_output"} :
        CallReturned(op) =>
            /\ called'.result > Len(heap)
            /\ heap'[called'.result].agent_outputs # heap'[called'.arg].agent_outputs
            /\ DeepValue(heap', called'.arg) = DeepValue(heap, called'.arg)
            /\ manager' = manager

NThreads == 2

MaxConstructions == 2

MaxRecords == 1

InitCollector ==
    /\ EngineIdle
    /\ ResolverIdle
    /\ ManagerIdle
    /\ collector = MetricsCollector
    /\ threads = [t \in 1..NThreads |-> NewThread]

\* thread t moves on to the statement at `to', the rest being as given
Step(t, to, cls, local) ==
    /\ collector' = cls
    /\ threads' = [threads EXCEPT ![t] = [local EXCEPT !.pc = to]]
    /\ UNCHANGED <<engine, resolving, managing>>

\* mc = MetricsCollector(): type.__call__ enters __new__
EnterNew(t) ==
    /\ threads[t].pc \in {"start", "done"}
    /\ threads[t].made < MaxConstructions
    /\ Step(t, "new_check", collector, [threads[t] EXCEPT !.made = @ + 1])

\* if cls._instance is None:
NewCheck(t) ==
    /\ threads[t].pc = "new_check"
    /\ Step(t, IF InstanceMissing(collector) THEN "new_lock" ELSE "new_return",
            collector, threads[t])

\* with cls._init_lock: entered once the lock is free
Acquire(t, from, to) ==
    /\ threads[t].pc = from
    /\ collector._init_lock = 0
    /\ Step(t, to, [collector EXCEPT !._init_lock = t], threads[t])

\* the end of a with block
Release(t, from, to) ==
    /\ threads[t].pc = from
    /\ Step(t, to, [collector EXCEPT !._init_lock = 0],
            IF to = "done" THEN [threads[t] EXCEPT !.got = threads[t].self]
            ELSE threads[t])

\* if cls._instance is None: under the lock
NewCheckLocked(t) ==
    /\ threads[t].pc = "new_check_locked"
    /\ Step(t, IF InstanceMissing(collector) THEN "new_create" ELSE "new_unlock",
            collector, threads[t])

\* cls._instance = super().__new__(cls)
NewCreate(t) ==
    /\ threads[t].pc = "new_create"
    /\ Step(t, "new_unlock",
            [collector EXCEPT !.objects = Append(@, NewCollector),
                              !._instance = Len(collector.objects) + 1],
            threads[t])

\* return cls._instance; __init__ is entered on what was returned
NewReturn(t) ==
    /\ threads[t].pc = "new_return"
    /\ Step(t, "init_check", collector, [threads[t] EXCEPT !.self = collector._instance])

\* if MetricsCollector._initialized: return
InitCheck(t) ==
    /\ threads[t].pc = "init_check"
    /\ Step(t, IF InitNeeded(collector) THEN "init_lock" ELSE "done", collector,
            IF InitNeeded(collector) THEN threads[t]
            ELSE [threads[t] EXCEPT !.got = threads[t].self])

\* if MetricsCollector._initialized: return, under the lock
InitCheckLocked(t) ==
    /\ threads[t].pc = "init_check_locked"
    /\ Step(t, IF InitNeeded(collector) THEN "init_lock_attr" ELSE "init_unlock",
            collector, threads[t])

\* self._lock = threading.Lock()
InitLockAttr(t) ==
    /\ threads[t].pc = "init_lock_attr"
    /\ Step(t, "init_counters",
            [collector EXCEPT !.objects[threads[t].self]._lock = TRUE], threads[t])

\* self._tool_call_count = defaultdict(...) and the other accumulators
InitCounters(t) ==
    /\ threads[t].pc = "init_counters"
    /\ Step(t, "init_flag",
            [collector EXCEPT !.objects[threads[t].self]._tool_call_count = << 0 >>,
                              !.objects[threads[t].self].inits = @ + 1],
            threads[t])

\* MetricsCollector._initialized = True
InitFlag(t) ==
    /\ threads[t].pc = "init_flag"
    /\ Step(t, "init_unlock", [collector EXCEPT !._initialized = TRUE], threads[t])

\* the instance has the attributes record_tool_call reads
Usable(object) == object._lock /\ object._tool_call_count # <<>>

\* mc.record_tool_call(agent, tool, latency_ms), whole under self._lock
RecordToolCall(t) ==
    /\ threads[t].pc = "done"
    /\ threads[t].recorded < MaxRecords
    /\ threads[t].exc = ""
    /\ IF Usable(collector.objects[threads[t].got])
       THEN Step(t, "done",
                 [collector EXCEPT !.objects[threads[t].got]._tool_call_count[1] = @ + 1],
                 [threads[t] EXCEPT !.recorded = @ + 1])
       ELSE Step(t, "done", collector, [threads[t] EXCEPT !.exc = "AttributeError"])

NextCollector ==
    \E t \in 1..NThreads :
        \/ EnterNew(t)
        \/ NewCheck(t)
        \/ Acquire(t, "new_lock", "new_check_locked")
        \/ NewCheckLocked(t)
        \/ NewCreate(t)
        \/ Release(t, "new_unlock", "new_return")
        \/ NewReturn(t)
        \/ InitCheck(t)
        \/ Acquire(t, "init_lock", "init_check_locked")
        \/ InitCheckLocked(t)
        \/ InitLockAttr(t)
        \/ InitCounters(t)
        \/ InitFlag(t)
        \/ Release(t, "init_unlock", "done")
        \/ RecordToolCall(t)

SpecCollector == InitCollector /\ [][NextCollector]_vars

\* the tool calls that the first n threads have recorded
RECURSIVE RecordedBy(_)
RecordedBy(n) == IF n = 0 THEN 0 ELSE threads[n].recorded + RecordedBy(n - 1)

\* the threads whose MetricsCollector() call has returned
Callers == { t \in 1..Len(threads) : threads[t].got # 0 }

\* C26: MetricsCollector is a thread-safe singleton: under any interleaving
\* of concurrent constructions every caller gets the same instance, the
\* counters are initialised exactly once, no caller gets the instance
\* before its initialisation has completed, and a later construction never
\* clears metrics recorded through an earlier reference.
C26_Singleton ==
    /\ Len(collector.objects) <= 1
    /\ \A t \in Callers :
           /\ threads[t].got = collector._instance
           /\ collector._initialized
           /\ Usable(collector.objects[threads[t].got])
           /\ collector.objects[threads[t].got].inits = 1
           /\ threads[t].exc = ""
    /\ \A k \in 1..Len(collector.objects) :
           /\ collector.objects[k].inits <= 1
           /\ RecordedBy(Len(threads)) > 0 =>
                  collector.objects[k]._tool_call_count = << RecordedBy(Len(threads)) >>

\* thread 1 has constructed the collector and recorded a tool call; thread 2
\* got the instance from __new__ while it was being initialised, waited for
\* the lock and now finds it initialised; the recorded call is still there
C26_Witness ==
    /\ Len(threads) >= 2
    /\ threads[1].got # 0 /\ threads[1].recorded = 1
    /\ threads[2].pc = "init_check_locked"
    /\ threads[2].self = threads[1].got
    /\ collector._initialized
    /\ collector.objects[1]._tool_call_count = << 1 >>

(***************************************************************************)
(* detect followed by one classify_severity call                           *)
(***************************************************************************)

\* the list the last detect call returned, as it was on return
LastDetected == detect_log[Len(detect_log)].result

\* C27: detect never returns a contradiction of severity low: every rule
\* emits medium or high. So in detect followed by one classify_severity call
\* the only change the call makes is medium -> high for contradictions whose
\* agent pair has at least 3 contradictions, and afterwards every
\* contradiction of such a pair is high.
C27_NoLowDetected ==
    /\ \A e \in 1..Len(detect_log) :
           \A k \in 1..Len(detect_log[e].result) :
               detect_log[e].result[k].severity \in {"medium", "high"}
    /\ (Len(detect_log) > 0 /\ passes = 1) =>
           /\ Len(contradictions) = Len(LastDetected)
           /\ \A k \in 1..Len(LastDetected) :
                  LET before == LastDetected[k].severity
                      after == contradictions[k].severity
                  IN  /\ contradictions[k] = [LastDetected[k] EXCEPT !.severity = after]
                      /\ after # before =>
                             /\ before = "medium" /\ after = "high"
                             /\ BetweenSame(LastDetected, k) >= 3
                      /\ BetweenSame(LastDetected, k) >= 3 => after = "high"

\* detect returned at least 3 contradictions between two agents, a medium
\* one among them, and after one classify_severity call all are high
C27_Witness ==
    /\ Len(detect_log) > 0 /\ passes = 1
    /\ Len(LastDetected) >= 3
    /\ \E k \in 1..Len(LastDetected) :
           /\ LastDetected[k].severity = "medium"
           /\ BetweenSame(LastDetected, k) >= 3
    /\ \A k \in 1..Len(contradictions) : contradictions[k].severity = "high"

(***************************************************************************)
(* classify_severity called three times on one list                        *)
(***************************************************************************)

MaxRepeats == 3

\* contradictions = classify_severity(contradictions), up to MaxRepeats times
ClassifyAgain ==
    /\ pc = "classify"
    /\ passes < MaxRepeats
    /\ contradictions' = classify_severity(contradictions)
    /\ calls' = Append(calls, [op |-> "classify_severity", arg |-> contradictions,
                               result |-> contradictions'])
    /\ passes' = passes + 1
    /\ UNCHANGED <<run, hash_seed, agent_outputs, detect_log, uuid_count, exc, advice, pc>>
    /\ UNCHANGED services

SpecFixpoint == InitClassify /\ [][ClassifyAgain]_vars

\* low < medium < high
SeverityRank(severity) ==
    CASE severity = "low" -> 0 [] severity = "medium" -> 1 [] severity = "high" -> 2

\* C28: across repeated classify_severity calls on the same list a severity
\* never decreases and rises by at most one level per call; the per-pair
\* counts are unaffected by escalation; and from the third call on no
\* severity changes, for every initial assignment of severities and
\* finding types.
C28_Fixpoint ==
    \A n \in 1..Len(calls) :
        /\ n > 1 => calls[n].arg = calls[n - 1].result
        /\ Len(calls[n].result) = Len(calls[n].arg)
        /\ \A k \in 1..Len(calls[n].arg) :
               /\ SeverityRank(calls[n].result[k].severity)
                      - SeverityRank(calls[n].arg[k].severity) \in {0, 1}
               /\ BetweenSame(calls[n].result, k) = BetweenSame(calls[n].arg, k)
               /\ n >= 3 => calls[n].result[k].severity = calls[n].arg[k].severity

\* three low contradictions between the same two agents went to medium in
\* the first call and to high in the second, and the third call left them
C28_Witness ==
    /\ Len(calls) = 3
    /\ Len(calls[1].arg) = 3
    /\ \A k \in 1..3 :
           /\ calls[1].arg[k].severity = "low"
           /\ calls[1].result[k].severity = "medium"
           /\ calls[2].result[k].severity = "high"
           /\ calls[3].result[k].severity = "high"

(***************************************************************************)
(* detect on two findings that say the same                                *)
(***************************************************************************)

\* the two findings agree in content, finding_type and confidence
SameStatement(a, b) ==
    /\ a.content = b.content
    /\ a.finding_type = b.finding_type
    /\ a.confidence = b.confidence

\* C29: detect reports only disagreements: for two findings from different
\* agents with identical content, finding_type and confidence no rule emits
\* a contradiction.
C29_OnlyDisagreements ==
    pc = "returned" =>
        \A k \in 1..Len(contradictions) :
            ~SameStatement(contradictions[k].finding_a, contradictions[k].finding_b)

(***************************************************************************)
(* suggest_resolution on what detect returned                              *)
(***************************************************************************)

\* the words the description of each rule opens with, rule 1 to rule 7
RuleOpening ==
    << "CPI/SPI direction disagreement: ",
       "Risk severity conflict: ",
       "Schedule impact mismatch: ",
       "Cost estimate divergence (",
       "Root cause disagreement on ",
       "Mitigation conflict on ",
       "Confidence disparity (" >>

\* C30: for every contradiction detect produces, suggest_resolution selects
\* the template of the rule that produced it, whatever agent names and topic
\* words the description holds, and never the generic template.
C30_TemplateOfRule ==
    \A n \in 1..Len(advice) :
        /\ \E r \in 1..Len(RuleOpening) :
               StartsWith(advice[n].contradiction.description, RuleOpening[r])
        /\ \A r \in 1..Len(RuleOpening) :
               StartsWith(advice[n].contradiction.description, RuleOpening[r])
                   => StartsWith(advice[n].text, TemplateOpening[r])

====
